---- MODULE Spec2Model ----
(***************************************************************************)
(* State-tracking and readiness logic of POSSUMutils: the relational store *)
(* read and written by automation/database_queries.py, the readiness and   *)
(* completeness queries, the 1D launcher's worklists and the ingest        *)
(* finalizer of possum_pipeline_control/ingest3Dpipeline.py.               *)
(*                                                                         *)
(* Text columns hold strings; SQL NULL / Python None is the value NULL.    *)
(* SQL conditions are evaluated in SQL's three-valued logic (T3, F3, U3):  *)
(* a WHERE clause, a CASE WHEN and an EXISTS keep a row only when the      *)
(* condition is T3.                                                        *)
(***************************************************************************)
EXTENDS Integers, Sequences, FiniteSets, TLC

VARIABLES
    tile3d,          \* [band -> set of rows of possum.tile_3d_pipeline_band{band}]
    observation,     \* [name -> cube_state] : possum.observation
    associated_tile, \* set of <<name, tile>> : possum.associated_tile
    partial_tile,    \* [band -> sequence of rows of possum.partial_tile_1d_pipeline_band{band}]
    obs1d,           \* [band -> set of rows of possum.observation_1d_pipeline_band{band}]
    sheet,           \* [band -> rows (tile_id, 3d_pipeline_ingest)] : the validation sheet
    fin,             \* [finalizer -> its call of update_validation_spreadsheet]
    jobs,            \* the jobs launched on CANFAR that have not logged their outcome
    ret              \* what the last call returned (or raised)

tileVars == <<tile3d, observation, associated_tile>>
oneDVars == <<partial_tile, obs1d>>
finVars  == <<sheet, fin, jobs>>
vars     == <<tile3d, observation, associated_tile, partial_tile, obs1d, sheet, fin, jobs, ret>>

-----------------------------------------------------------------------------
(* Bounds of the model.                                                    *)

\* tile ids of the 3D tile tables are 1..NumTiles
NumTiles == 2
\* rows inserted into the 3D tile tables (both bands together)
MaxTileRows == 2

-----------------------------------------------------------------------------
(* Values.                                                                 *)

\* SQL NULL in a text column, Python None
NULL == "<NULL>"

\* the two band tables; a band argument is compared after str()
Bands == {"1", "2"}
BandArgs == {"1", "2", "3"}

TileIds == 1..NumTiles

\* SQL truth values
T3 == "true"
F3 == "false"
U3 == "unknown"

Not3(a) == IF a = T3 THEN F3 ELSE IF a = F3 THEN T3 ELSE U3
And3(a, b) == IF a = F3 \/ b = F3 THEN F3 ELSE IF a = T3 /\ b = T3 THEN T3 ELSE U3
Or3(a, b) == IF a = T3 \/ b = T3 THEN T3 ELSE IF a = F3 /\ b = F3 THEN F3 ELSE U3
\* a = b, a != b, a IS NULL in SQL
Eq3(a, b) == IF a = NULL \/ b = NULL THEN U3 ELSE IF a = b THEN T3 ELSE F3
Ne3(a, b) == Not3(Eq3(a, b))
IsNull3(a) == IF a = NULL THEN T3 ELSE F3

\* LOWER(text): NULL stays NULL, upper-case letters are folded
LowerTable ==
    [s \in {"Good", "GOOD", "Completed", "COMPLETED", "Bad", "Running", "Failed",
            "Edge - Crosses Projection Boundary!", "Center",
            "Corner - Crosses Projection Boundary!"} |->
        CASE s = "Good" -> "good"
          [] s = "Center" -> "center"
          [] s = "Corner - Crosses Projection Boundary!" ->
                "corner - crosses projection boundary!"
          [] s = "GOOD" -> "good"
          [] s = "Completed" -> "completed"
          [] s = "COMPLETED" -> "completed"
          [] s = "Bad" -> "bad"
          [] s = "Running" -> "running"
          [] s = "Failed" -> "failed"
          [] s = "Edge - Crosses Projection Boundary!" -> "edge - crosses projection boundary!"]

Lower(s) == IF s = NULL THEN NULL ELSE IF s \in DOMAIN LowerTable THEN LowerTable[s] ELSE s

\* validate_band_number: str(band_number) must be "1" or "2"
validate_band_number(band_number) == band_number \in {"1", "2"}

\* the result of a call that raised
Raised(op, err) == [op |-> op, error |-> err]
Returned(op, band, value) == [op |-> op, band |-> band, value |-> value]
NoRet == [op |-> "none"]

\* ORDER BY tile_id DESC
RECURSIVE OrderByTileIdDesc(_)
OrderByTileIdDesc(S) ==
    IF S = {} THEN <<>>
    ELSE LET m == CHOOSE t \in S : \A u \in S : t >= u
         IN <<  <<m>>  >> \o OrderByTileIdDesc(S \ {m})

\* ORDER BY tile_id: a set of tile ids as the ascending sequence of its rows (tile_id,)
RECURSIVE OrderByTileId(_)
OrderByTileId(S) ==
    IF S = {} THEN <<>>
    ELSE LET m == CHOOSE t \in S : \A u \in S : t <= u
         IN <<  <<m>>  >> \o OrderByTileId(S \ {m})

-----------------------------------------------------------------------------
(* The 3D tile tables.                                                     *)

\* status texts met in the columns of tile_3d_pipeline_band{n}
ValTexts == {NULL, "", "Good", "GOOD", "good", "Bad"}
IngestTexts == {NULL, "", "IngestRunning", "Ingested", "IngestFailed"}
PipelineTexts == {NULL, "", "Running"}
CubeStates == {NULL, "COMPLETED", "completed", "PENDING"}
ObsNames == {"EMU_A", "EMU_B"}

TileRow(t, p, v, i) ==
    [tile_id |-> t, pipeline |-> p, val |-> v, link |-> NULL, ingest |-> i]

\* INSERT of one row (tile_id, 3d_pipeline, 3d_pipeline_val, 3d_pipeline_ingest);
\* tile_id is the key of the table: a second row for the tile is rejected
insert_3d_pipeline_test_data(band, t, p, v, i) ==
    /\ Cardinality(tile3d["1"]) + Cardinality(tile3d["2"]) < MaxTileRows
    /\ \A r \in tile3d[band] : r.tile_id # t
    /\ tile3d' = [tile3d EXCEPT ![band] = @ \cup {TileRow(t, p, v, i)}]
    /\ ret' = NoRet
    /\ UNCHANGED <<observation, associated_tile, oneDVars, finVars>>

\* UPDATE ... SET "3d_pipeline_ingest" = status WHERE tile_id = tile_number
Update3dIngestRows(rows, tile_number, status) ==
    {IF r.tile_id = tile_number THEN [r EXCEPT !.ingest = status] ELSE r : r \in rows}

\* UPDATE ... SET "3d_pipeline" = status WHERE tile_id = tile_number
Update3dPipelineRows(rows, tile_number, status) ==
    {IF r.tile_id = tile_number THEN [r EXCEPT !.pipeline = status] ELSE r : r \in rows}

\* cursor.rowcount of an UPDATE ... WHERE tile_id = tile_number
RowCount(rows, tile_number) == Cardinality({r \in rows : r.tile_id = tile_number})

update_3d_pipeline_ingest(tile_number, band_number, status) ==
    IF ~validate_band_number(band_number)
    THEN /\ ret' = Raised("update_3d_pipeline_ingest", "ValueError")
         /\ UNCHANGED <<tileVars, oneDVars, finVars>>
    ELSE /\ tile3d' = [tile3d EXCEPT ![band_number] =
                          Update3dIngestRows(@, tile_number, status)]
         /\ ret' = Returned("update_3d_pipeline_ingest", band_number,
                            RowCount(tile3d[band_number], tile_number))
         /\ UNCHANGED <<observation, associated_tile, oneDVars, finVars>>

update_3d_pipeline(tile_number, band_number, status) ==
    IF ~validate_band_number(band_number)
    THEN /\ ret' = Raised("update_3d_pipeline", "ValueError")
         /\ UNCHANGED <<tileVars, oneDVars, finVars>>
    ELSE /\ tile3d' = [tile3d EXCEPT ![band_number] =
                          Update3dPipelineRows(@, tile_number, status)]
         /\ ret' = Returned("update_3d_pipeline", band_number,
                            RowCount(tile3d[band_number], tile_number))
         /\ UNCHANGED <<observation, associated_tile, oneDVars, finVars>>

\* the condition on the validation alone, without the test of the ingest status
IngestWhereValOnly(r) == Eq3(Lower(r.val), "good")

\* the same condition comparing the stored text as it is, without LOWER
IngestWhereCaseSensitive(r) ==
    And3(Eq3(r.val, "good"), Or3(IsNull3(r.ingest), Eq3(r.ingest, "")))

\* WHERE LOWER("3d_pipeline_val") = 'good'
\*   AND ("3d_pipeline_ingest" IS NULL OR "3d_pipeline_ingest" = '')
IngestWhere(r) ==
    And3(Eq3(Lower(r.val), "good"), Or3(IsNull3(r.ingest), Eq3(r.ingest, "")))

\* SELECT DISTINCT tile_id ... ORDER BY tile_id, as the rows fetchall() gives
IngestQueryRows(rows) ==
    OrderByTileId({r.tile_id : r \in {q \in rows : IngestWhere(q) = T3}})

\* [row[0] for row in results]
Flatten(results) == [k \in 1..Len(results) |-> results[k][1]]

get_tiles_for_ingest(band_number) ==
    /\ ret' = IF ~validate_band_number(band_number)
              THEN Raised("get_tiles_for_ingest", "ValueError")
              ELSE Returned("get_tiles_for_ingest", band_number,
                            Flatten(IngestQueryRows(tile3d[band_number])))
    /\ UNCHANGED <<tileVars, oneDVars, finVars>>

-----------------------------------------------------------------------------
(* Specification of the ingest readiness of the 3D tile tables.            *)

InitStore ==
    /\ tile3d = [b \in Bands |-> {}]
    /\ observation = [n \in ObsNames |-> NULL]
    /\ associated_tile = {}
    /\ partial_tile = [b \in Bands |-> {}]
    /\ obs1d = [b \in Bands |-> {}]
    /\ sheet = [b \in Bands |-> <<>>]
    /\ fin = <<>>
    /\ jobs = {}
    /\ ret = NoRet

InitIngestReady == InitStore

NextIngestReady ==
    \/ \E b \in Bands, t \in TileIds, v \in ValTexts, i \in IngestTexts :
          insert_3d_pipeline_test_data(b, t, "WaitingForValidation", v, i)
    \/ \E b \in BandArgs, t \in TileIds, s \in IngestTexts :
          update_3d_pipeline_ingest(t, b, s)
    \/ \E b \in BandArgs : get_tiles_for_ingest(b)

SpecIngestReady == InitIngestReady /\ [][NextIngestReady]_vars

-----------------------------------------------------------------------------
(* Readiness for the 3D pipeline run.                                      *)

\* WHERE observation.cube_state = 'COMPLETED'
\*   AND (tile_3d."3d_pipeline" IS NULL OR tile_3d."3d_pipeline" = '')
PipelineRunWhere(r, cube_state) ==
    And3(Eq3(cube_state, "COMPLETED"), Or3(IsNull3(r.pipeline), Eq3(r.pipeline, "")))

\* tile_3d INNER JOIN associated_tile ON associated_tile.tile = tile_3d.tile_id
\*         INNER JOIN observation ON observation.name = associated_tile.name
PipelineRunJoin(rows) ==
    {jr \in [tile : rows, name : ObsNames] : <<jr.name, jr.tile.tile_id>> \in associated_tile}

\* SELECT DISTINCT tile_id ... WHERE ... ORDER BY tile_id
PipelineRunQueryRows(rows) ==
    OrderByTileId({jr.tile.tile_id : jr \in
        {j \in PipelineRunJoin(rows) : PipelineRunWhere(j.tile, observation[j.name]) = T3}})

get_tiles_for_pipeline_run(band_number) ==
    /\ ret' = IF ~validate_band_number(band_number)
              THEN Raised("get_tiles_for_pipeline_run", "ValueError")
              ELSE Returned("get_tiles_for_pipeline_run", band_number,
                            PipelineRunQueryRows(tile3d[band_number]))
    /\ UNCHANGED <<tileVars, oneDVars, finVars>>

\* the observation registry and the tile association are written upstream
InitStage3 ==
    /\ tile3d = [b \in Bands |-> {}]
    /\ observation \in [ObsNames -> CubeStates]
    /\ associated_tile \in SUBSET (ObsNames \X TileIds)
    /\ partial_tile = [b \in Bands |-> {}]
    /\ obs1d = [b \in Bands |-> {}]
    /\ sheet = [b \in Bands |-> <<>>]
    /\ fin = <<>>
    /\ jobs = {}
    /\ ret = NoRet

NextStage3 ==
    \/ \E b \in Bands, t \in TileIds, p \in PipelineTexts :
          insert_3d_pipeline_test_data(b, t, p, NULL, NULL)
    \/ \E b \in BandArgs, t \in TileIds, s \in PipelineTexts :
          update_3d_pipeline(t, b, s)
    \/ \E b \in BandArgs : get_tiles_for_pipeline_run(b)

SpecStage3 == InitStage3 /\ [][NextStage3]_vars

-----------------------------------------------------------------------------
(* The 1D tables: partial tiles and observations.                          *)

\* SQL NULL in an integer column (tile1..tile4, number_sources); the table's
\* generated key writes an absent tile slot as '-1' too
NULLINT == -1

\* decimal texts and the integers they denote (str.isdigit, ::bigint, str())
NumberTexts == {<<"0", 0>>, <<"1", 1>>, <<"2", 2>>, <<"3", 3>>, <<"12", 12>>}
isdigit(s) == \E nt \in NumberTexts : nt[1] = s
ToInt(s) == (CHOOSE nt \in NumberTexts : nt[1] = s)[2]
\* str(n) of a Python int
Str(n) == (CHOOSE nt \in NumberTexts : nt[2] = n)[1]
\* "x if x else ''" tests the truth of a Python value: None and 0 are false
Truthy(n) == n # NULLINT /\ n # 0

\* type LIKE '%crosses projection boundary%', the stored text as it is
LikeBoundaryCaseSensitive3(type) ==
    IF type = NULL THEN U3
    ELSE IF type \in {"edge - crosses projection boundary!",
                      "corner - crosses projection boundary!"}
         THEN T3 ELSE F3

\* LOWER(type) LIKE '%crosses projection boundary%'
LikeBoundary3(type) ==
    IF type = NULL THEN U3
    ELSE IF Lower(type) \in {"edge - crosses projection boundary!",
                             "corner - crosses projection boundary!"}
         THEN T3 ELSE F3

PartialRow(o, sb, t1, t2, t3, t4, ty, ns, st) ==
    [observation |-> o, sbid |-> sb, tile1 |-> t1, tile2 |-> t2, tile3 |-> t3,
     tile4 |-> t4, type |-> ty, number_sources |-> ns, status |-> st]

\* generated_key: the texts joined with '|', an absent slot written '-1'
generated_key(r) ==
    <<IF r.observation = NULL THEN "" ELSE r.observation,
      r.tile1, r.tile2, r.tile3, r.tile4,
      IF r.type = NULL THEN "" ELSE r.type>>

\* tile_a IS NOT NULL AND tile_a = tile_b
SameTile3(a, b) ==
    And3(IF a # NULLINT THEN T3 ELSE F3,
         IF a = NULLINT \/ b = NULLINT THEN U3 ELSE IF a = b THEN T3 ELSE F3)

\* LOWER(type) IN (...)
TypeIn3(type, S) == IF type = NULL THEN U3 ELSE IF Lower(type) \in S THEN T3 ELSE F3

Present3(n) == IF n # NULLINT THEN T3 ELSE F3
Absent3(n) == IF n = NULLINT THEN T3 ELSE F3

\* the four CHECK constraints of the table: a row is rejected when one is false
CheckDistinctTiles(r) ==
    Not3(Or3(SameTile3(r.tile1, r.tile2), Or3(SameTile3(r.tile1, r.tile3),
         Or3(SameTile3(r.tile1, r.tile4), Or3(SameTile3(r.tile2, r.tile3),
         Or3(SameTile3(r.tile2, r.tile4), SameTile3(r.tile3, r.tile4)))))))

CheckCorner(r) ==
    Or3(Not3(And3(Present3(r.tile1), And3(Present3(r.tile2),
                  And3(Present3(r.tile3), Present3(r.tile4))))),
        TypeIn3(r.type, {"corner", "corner - crosses projection boundary!"}))

CheckEdge(r) ==
    Or3(Not3(And3(Present3(r.tile1), And3(Present3(r.tile2),
                  And3(Absent3(r.tile3), Absent3(r.tile4))))),
        TypeIn3(r.type, {"edge", "edge - crosses projection boundary!"}))

CheckCenter(r) ==
    Or3(Not3(And3(Present3(r.tile1), And3(Absent3(r.tile2),
                  And3(Absent3(r.tile3), Absent3(r.tile4))))),
        TypeIn3(r.type, {"center"}))

\* the table without its three CHECKs of the type
ChecksPassWithoutShapes(r) == CheckDistinctTiles(r) # F3

\* the table without its CHECK of equal tiles
ChecksPassWithoutDistinct(r) ==
    /\ CheckCorner(r) # F3
    /\ CheckEdge(r) # F3
    /\ CheckCenter(r) # F3

ChecksPass(r) ==
    /\ CheckDistinctTiles(r) # F3
    /\ CheckCorner(r) # F3
    /\ CheckEdge(r) # F3
    /\ CheckCenter(r) # F3

\* the row an input row (a list of texts) is inserted as: Python's row[k] is
\* row[k + 1] here.  The sbid column that the queries read is not in this
\* INSERT; it is taken from Python's row[1], the sbid text of an input row
InsertArgs(row) ==
    PartialRow(row[1], row[2],
               IF isdigit(row[3]) THEN ToInt(row[3]) ELSE NULLINT,
               IF isdigit(row[4]) THEN ToInt(row[4]) ELSE NULLINT,
               IF isdigit(row[5]) THEN ToInt(row[5]) ELSE NULLINT,
               IF isdigit(row[6]) THEN ToInt(row[6]) ELSE NULLINT,
               row[7],
               IF isdigit(row[8]) THEN ToInt(row[8]) ELSE NULLINT,
               IF Len(row) > 8 THEN row[9] ELSE NULL)

\* rows of the partial-tile tables (both bands together)
MaxPartialRows == 3

\* the insert into a table whose UNIQUE constraint is on the columns themselves
\* (observation, tile1..tile4, type): a row with a NULL among them conflicts
\* with no row
insert_row_unique_on_columns(row, band_number) ==
    LET r == InsertArgs(row)
        table == partial_tile[band_number]
        HasNull(q) == NULLINT \in {q.tile1, q.tile2, q.tile3, q.tile4}
    IN /\ Cardinality(partial_tile["1"]) + Cardinality(partial_tile["2"]) < MaxPartialRows
       /\ partial_tile' =
             IF ChecksPass(r) /\ \A q \in table :
                                   HasNull(r) \/ generated_key(q) # generated_key(r)
             THEN [partial_tile EXCEPT ![band_number] = @ \cup {r}]
             ELSE partial_tile
       /\ ret' = NoRet
       /\ UNCHANGED <<tileVars, obs1d, finVars>>

\* INSERT ... ON CONFLICT (generated_key) DO NOTHING; a row that breaks a CHECK
\* raises in the store, which execute_query prints and swallows
insert_row_into_partial_tile_table(row, band_number) ==
    LET r == InsertArgs(row)
        table == partial_tile[band_number]
    IN /\ Cardinality(partial_tile["1"]) + Cardinality(partial_tile["2"]) < MaxPartialRows
       /\ partial_tile' =
             IF ChecksPass(r) /\ \A q \in table : generated_key(q) # generated_key(r)
             THEN [partial_tile EXCEPT ![band_number] = @ \cup {r}]
             ELSE partial_tile
       /\ ret' = NoRet
       /\ UNCHANGED <<tileVars, obs1d, finVars>>

ObsRow(n, sb, v, ss) == [name |-> n, sbid |-> sb, validation |-> v, single_sb |-> ss]

\* INSERT (name, sbid, "1d_pipeline_validation") ... ON CONFLICT (name) DO UPDATE
\* SET "1d_pipeline_validation" = status
update_1d_pipeline_validation_status(field_name, sbid, band_number, status) ==
    IF ~validate_band_number(band_number)
    THEN /\ ret' = Raised("update_1d_pipeline_validation_status", "ValueError")
         /\ UNCHANGED <<tileVars, oneDVars, finVars>>
    ELSE /\ obs1d' = [obs1d EXCEPT ![band_number] =
                IF \E o \in @ : o.name = field_name
                THEN {IF o.name = field_name THEN [o EXCEPT !.validation = status] ELSE o
                         : o \in @}
                ELSE @ \cup {ObsRow(field_name, sbid, status, NULL)}]
         /\ ret' = Returned("update_1d_pipeline_validation_status", band_number, 1)
         /\ UNCHANGED <<tileVars, partial_tile, finVars>>

\* " AND tile{i} = %s" for every slot, an absent one compared with = NULL
SlotEquals3(stored, tile) ==
    IF tile = NULL \/ tile = "" \/ stored = NULLINT THEN U3
    ELSE IF stored = ToInt(tile) THEN T3 ELSE F3

\* one " AND tile{i} IS NULL" or " AND tile{i} = %s" of the UPDATE's WHERE
SlotMatches3(stored, tile) ==
    IF tile = NULL \/ tile = ""
    THEN Absent3(stored)
    ELSE IF stored = NULLINT THEN U3 ELSE IF stored = ToInt(tile) THEN T3 ELSE F3

UpdateStatusWhere(r, field_name, tile_numbers) ==
    And3(Eq3(r.observation, field_name),
         And3(SlotMatches3(r.tile1, tile_numbers[1]),
              And3(SlotMatches3(r.tile2, tile_numbers[2]),
                   And3(SlotMatches3(r.tile3, tile_numbers[3]),
                        SlotMatches3(r.tile4, tile_numbers[4])))))

\* no band validation here: another band names a table that does not exist,
\* the store raises, execute_update_query prints it and returns 0
update_partial_tile_1d_pipeline_status(field_name, tile_numbers, band_number, status) ==
    /\ partial_tile' =
          IF band_number \in Bands
          THEN [partial_tile EXCEPT ![band_number] =
                   {IF UpdateStatusWhere(r, field_name, tile_numbers) = T3
                    THEN [r EXCEPT !.status = status] ELSE r : r \in @}]
          ELSE partial_tile
    /\ ret' = [op |-> "update_partial_tile_1d_pipeline_status"]
    /\ UNCHANGED <<tileVars, obs1d, finVars>>

-----------------------------------------------------------------------------
(* The 1D queries and the launcher's worklists.                            *)

\* a SELECT without ORDER BY: the store may return the rows in any order
Orders(S) ==
    {f \in [1..Cardinality(S) -> S] :
        \A i, j \in 1..Cardinality(S) : f[i] = f[j] => i = j}

PartialTable(band_number) == IF band_number \in Bands THEN partial_tile[band_number] ELSE {}
ObsTable(band_number) == IF band_number \in Bands THEN obs1d[band_number] ELSE {}

\* WHERE pt.sbid IS NOT NULL AND pt.sbid != '' AND pt.number_sources IS NOT NULL
\*   AND (pt."1d_pipeline" IS NULL or pt."1d_pipeline" = '')
ReadyWhere(pt) ==
    And3(Not3(IsNull3(pt.sbid)),
         And3(Ne3(pt.sbid, ""),
              And3(Present3(pt.number_sources),
                   Or3(IsNull3(pt.status), Eq3(pt.status, "")))))

ReadySelect(pt) == <<pt.observation, pt.sbid, pt.tile1, pt.tile2, pt.tile3, pt.tile4>>

\* the results the store may return to get_partial_tiles_for_1d_pipeline_run
ReadyResults(band_number) ==
    {[k \in DOMAIN f |-> ReadySelect(f[k])] :
        f \in Orders({pt \in PartialTable(band_number) : ReadyWhere(pt) = T3})}

get_partial_tiles_for_1d_pipeline_run(band_number) ==
    /\ IF ~validate_band_number(band_number)
       THEN ret' = Raised("get_partial_tiles_for_1d_pipeline_run", "ValueError")
       ELSE \E rows \in ReadyResults(band_number) :
               ret' = Returned("get_partial_tiles_for_1d_pipeline_run", band_number, rows)
    /\ UNCHANGED <<tileVars, oneDVars, finVars>>

\* FROM pt, ob WHERE ob.name = pt.observation
\* GROUP BY pt.observation, pt.sbid, ob."1d_pipeline_validation", pt."1d_pipeline"
CompleteGroups(band_number) ==
    {[observation |-> jr.pt.observation, sbid |-> jr.pt.sbid,
      validation |-> jr.ob.validation, status |-> jr.pt.status] :
        jr \in {j \in [pt : PartialTable(band_number), ob : ObsTable(band_number)] :
                   Eq3(j.ob.name, j.pt.observation) = T3}}

\* the CASE of the query, for one group
all_complete(band_number, g) ==
    IF \E pt2 \in PartialTable(band_number) :
          And3(Eq3(pt2.observation, g.observation),
               Ne3(Lower(pt2.status), "completed")) = T3
    THEN FALSE
    ELSE IF And3(Or3(IsNull3(g.validation), Eq3(g.validation, "")),
                 Eq3(Lower(g.status), "completed")) = T3
         THEN TRUE
         ELSE FALSE

\* the results the store may return to get_observations_with_complete_partial_tiles
\* (a band without tables makes the store raise; execute_query returns [])
CompleteResults(band_number) ==
    {[k \in DOMAIN f |-> <<f[k].observation, f[k].sbid, all_complete(band_number, f[k])>>] :
        f \in Orders(CompleteGroups(band_number))}

\* the CASE of the non-edge query, for one row of the table
non_edge_complete(band_number, pt) ==
    \E pt_inner \in PartialTable(band_number), ob_inner \in ObsTable(band_number) :
        /\ Eq3(ob_inner.name, pt_inner.observation) = T3
        /\ And3(Not3(LikeBoundary3(pt_inner.type)),
                And3(Eq3(Lower(pt_inner.status), "completed"),
                     And3(Or3(IsNull3(ob_inner.validation), Eq3(ob_inner.validation, "")),
                          Eq3(pt_inner.observation, pt.observation)))) = T3

\* the results the store may return to get_observations_non_edge_rows
NonEdgeResults(band_number) ==
    {[k \in DOMAIN f |-> <<f[k].observation, f[k].sbid, non_edge_complete(band_number, f[k])>>] :
        f \in Orders(PartialTable(band_number))}

\* util.get_sbid_num: the number of a survey-block id, without its "ASKAP-"
SbidTable == [s \in {"ASKAP-46955"} |-> "46955"]
get_sbid_num(sbid) == IF sbid \in DOMAIN SbidTable THEN SbidTable[sbid] ELSE sbid

\* re.sub(r'^(EMU_|WALLABY_)', '', field_name)
PrefixTable == [s \in {"EMU_A", "EMU_B"} |-> IF s = "EMU_A" THEN "A" ELSE "B"]
remove_prefix(field_name) ==
    IF field_name \in DOMAIN PrefixTable THEN PrefixTable[field_name] ELSE field_name

\* a Python dict: the (key, value) pairs in the order the keys were first set
DictSet(d, k, v) ==
    IF \E i \in 1..Len(d) : d[i][1] = k
    THEN [i \in 1..Len(d) |-> IF d[i][1] = k THEN <<k, v>> ELSE d[i]]
    ELSE Append(d, <<k, v>>)

\* results[(row[0], util.get_sbid_num(row[1]))] = row[2], row after row
RECURSIVE GroupRows(_, _)
GroupRows(rows, d) ==
    IF rows = <<>> THEN d
    ELSE GroupRows(Tail(rows),
                   DictSet(d, <<Head(rows)[1], get_sbid_num(Head(rows)[2])>>, Head(rows)[3]))

get_results_per_field_sbid(band_number) ==
    /\ \E rows \in CompleteResults(band_number) :
          ret' = [op |-> "get_results_per_field_sbid", band |-> band_number,
                  rows |-> rows, value |-> GroupRows(rows, <<>>)]
    /\ UNCHANGED <<tileVars, oneDVars, finVars>>

get_results_per_field_sbid_skip_edges(band_number) ==
    /\ \E rows \in NonEdgeResults(band_number) :
          ret' = Returned("get_results_per_field_sbid_skip_edges", band_number,
                          GroupRows(rows, <<>>))
    /\ UNCHANGED <<tileVars, oneDVars, finVars>>

\* [key for (key, value) in results.items() if value]
KeysWithTrue(d) == SelectSeq(d, LAMBDA kv : kv[2])
Keys(seq) == {seq[i][1] : i \in 1..Len(seq)}

\* str(row[k]) if row[k] else ''
SlotText(n) == IF Truthy(n) THEN Str(n) ELSE ""

\* what the launcher returns for the rows the three queries gave it
PipelineRunWithout(rows, complete, nonedge) ==
    [fields_to_run |-> [k \in DOMAIN rows |-> remove_prefix(rows[k][1])],
     tile1_to_run |-> [k \in DOMAIN rows |-> SlotText(rows[k][3])],
     tile2_to_run |-> [k \in DOMAIN rows |-> SlotText(rows[k][4])],
     tile3_to_run |-> [k \in DOMAIN rows |-> SlotText(rows[k][5])],
     tile4_to_run |-> [k \in DOMAIN rows |-> SlotText(rows[k][6])],
     SBids_to_run |-> [k \in DOMAIN rows |-> get_sbid_num(rows[k][2])],
     can_make_validation |-> [k \in DOMAIN KeysWithTrue(complete) |-> KeysWithTrue(complete)[k][1]],
     can_make_val_if_skip_edges |-> Keys(KeysWithTrue(nonedge))]

PipelineRun(rows, complete, nonedge) ==
    [fields_to_run |-> [k \in DOMAIN rows |-> remove_prefix(rows[k][1])],
     tile1_to_run |-> [k \in DOMAIN rows |-> SlotText(rows[k][3])],
     tile2_to_run |-> [k \in DOMAIN rows |-> SlotText(rows[k][4])],
     tile3_to_run |-> [k \in DOMAIN rows |-> SlotText(rows[k][5])],
     tile4_to_run |-> [k \in DOMAIN rows |-> SlotText(rows[k][6])],
     SBids_to_run |-> [k \in DOMAIN rows |-> get_sbid_num(rows[k][2])],
     can_make_validation |-> [k \in DOMAIN KeysWithTrue(complete) |-> KeysWithTrue(complete)[k][1]],
     can_make_val_if_skip_edges |->
         Keys(KeysWithTrue(nonedge)) \ Keys(KeysWithTrue(complete))]

\* get_tiles_for_pipeline_run of check_status_and_launch_1Dpipeline_PartialTiles
launcher_get_tiles_for_pipeline_run(band_number) ==
    /\ IF ~validate_band_number(band_number)
       THEN ret' = Raised("launcher_get_tiles_for_pipeline_run", "ValueError")
       ELSE \E rows \in ReadyResults(band_number),
               full \in CompleteResults(band_number),
               skip \in NonEdgeResults(band_number) :
               ret' = Returned("launcher_get_tiles_for_pipeline_run", band_number,
                               PipelineRun(rows, GroupRows(full, <<>>),
                                           GroupRows(skip, <<>>)))
    /\ UNCHANGED <<tileVars, oneDVars, finVars>>

-----------------------------------------------------------------------------
(* Specification of the 1D completion predicates and the launcher's        *)
(* worklists.  Only band 1 has 1D data.                                    *)

\* the survey-block id of each observation
ObsSbid == [n \in ObsNames |-> IF n = "EMU_A" THEN "ASKAP-46955" ELSE "54926"]

\* the partial tiles of the input: (observation, sbid, tile1, tile2, type)
CompleteTiles ==
    {<<"EMU_A", ObsSbid["EMU_A"], "1", "", "center">>,
     <<"EMU_A", ObsSbid["EMU_A"], "1", "2", "edge">>,
     <<"EMU_A", ObsSbid["EMU_A"], "1", "2", "Edge - Crosses Projection Boundary!">>,
     <<"EMU_B", ObsSbid["EMU_B"], "1", "", "center">>}
StatusTexts == {NULL, "", "Completed", "Running"}
ValidationTexts == {NULL, "", "Running"}

CompleteInputRows ==
    {<<t[1], t[2], t[3], t[4], "", "", t[5], "12", st>> :
        t \in CompleteTiles, st \in StatusTexts}

\* the observation table of band 1 holds the observations of the survey
InitComplete ==
    /\ tile3d = [b \in Bands |-> {}]
    /\ observation = [n \in ObsNames |-> NULL]
    /\ associated_tile = {}
    /\ partial_tile = [b \in Bands |-> {}]
    /\ \E v \in [ObsNames -> ValidationTexts] :
          obs1d = [b \in Bands |->
                     IF b = "1" THEN {ObsRow(n, ObsSbid[n], v[n], NULL) : n \in ObsNames}
                     ELSE {}]
    /\ sheet = [b \in Bands |-> <<>>]
    /\ fin = <<>>
    /\ jobs = {}
    /\ ret = NoRet

NextComplete ==
    \/ \E row \in CompleteInputRows : insert_row_into_partial_tile_table(row, "1")
    \/ \E n \in ObsNames, b \in {"1", "3"}, s \in ValidationTexts :
          update_1d_pipeline_validation_status(n, ObsSbid[n], b, s)
    \/ \E t \in CompleteTiles, b \in {"1", "3"}, s \in StatusTexts :
          update_partial_tile_1d_pipeline_status(t[1], <<t[3], t[4], "", "">>, b, s)
    \/ \E b \in BandArgs : get_results_per_field_sbid(b)
    \/ \E b \in BandArgs : get_results_per_field_sbid_skip_edges(b)
    \/ \E b \in BandArgs : launcher_get_tiles_for_pipeline_run(b)

SpecComplete == InitComplete /\ [][NextComplete]_vars

-----------------------------------------------------------------------------
(* Specification of 1D readiness: which partial tiles the launcher is      *)
(* given to run, and in what form.                                         *)

\* the partial tiles of the input: (observation, tile1, tile2, type)
ReadyTiles ==
    {<<"EMU_A", "1", "", "center">>,
     <<"EMU_A", "0", "", "center">>,
     <<"EMU_B", "1", "2", "edge">>}

\* (sbid, number_sources, 1d_pipeline) of an input row: a row that has all
\* it needs, and rows that miss one thing
ReadyFields ==
    {<<"54926", "12", NULL>>,
     <<NULL, "12", NULL>>, <<"", "12", NULL>>, <<" ", "12", NULL>>,
     <<"54926", "", NULL>>,
     <<"54926", "12", "">>, <<"54926", "12", " ">>, <<"54926", "12", "Running">>}

ReadyInputRows ==
    {<<t[1], f[1], t[2], t[3], "", "", t[4], f[2], f[3]>> :
        t \in ReadyTiles, f \in ReadyFields}

InitReady == InitStore

NextReady ==
    \/ \E row \in ReadyInputRows : insert_row_into_partial_tile_table(row, "1")
    \/ \E t \in ReadyTiles, b \in {"1", "3"}, s \in {"", " ", "Running"} :
          update_partial_tile_1d_pipeline_status(t[1], <<t[2], t[3], "", "">>, b, s)
    \/ \E b \in BandArgs : get_partial_tiles_for_1d_pipeline_run(b)
    \/ \E b \in BandArgs : launcher_get_tiles_for_pipeline_run(b)

SpecReady == InitReady /\ [][NextReady]_vars

-----------------------------------------------------------------------------
(* Ingest finalize: ingest3Dpipeline.update_validation_spreadsheet.        *)

\* calls of update_validation_spreadsheet that may be in progress together
NumFinalizers == 2
Finalizers == 1..NumFinalizers

BandNames == {"943MHz", "1367MHz"}
get_band_number(band) == IF band = "943MHz" THEN "1" ELSE "2"

SheetRow(t, i) == [tile_id |-> t, ingest |-> i]

\* for idx, row in enumerate(tile_table): if row['tile_id'] == tile_number: break
\* (0 when no row matches: tile_index stays None)
TileIndex(rows, tile_number) ==
    IF \E k \in 1..Len(rows) : rows[k].tile_id = tile_number
    THEN CHOOSE k \in 1..Len(rows) :
            /\ rows[k].tile_id = tile_number
            /\ \A j \in 1..(k - 1) : rows[j].tile_id # tile_number
    ELSE 0

\* tile_sheet.update(range_name=..., values=[[status]])
SheetUpdate(rows, tile_index, status) ==
    [rows EXCEPT ![tile_index] = [@ EXCEPT !.ingest = status]]

Idle == [pc |-> "idle"]

\* update_status of check_ingest_3Dpipeline: the sheet cell is set, a tile
\* that is not in the sheet is printed
update_status(tile_number, band, status) ==
    LET band_number == get_band_number(band)
        tile_index == TileIndex(sheet[band_number], Str(tile_number))
    IN /\ sheet' = IF tile_index # 0
                   THEN [sheet EXCEPT ![band_number] = SheetUpdate(@, tile_index, status)]
                   ELSE sheet
       /\ ret' = NoRet
       /\ UNCHANGED <<tileVars, oneDVars, fin, jobs>>

\* update_validation_spreadsheet, from its call to the check of the status it
\* read from the sheet (get_all_values)
FinalizeCheck(f, tile_number, band, status, test) ==
    LET band_number == get_band_number(band)
        rows == sheet[band_number]
        tile_index == TileIndex(rows, Str(tile_number))
        call == [tile_number |-> Str(tile_number), band_number |-> band_number,
                 status |-> status, test |-> test]
    IN /\ fin[f].pc = "idle"
       /\ fin' = [fin EXCEPT ![f] =
             IF tile_index = 0
             THEN [pc |-> "raised", error |-> "ValueError", call |-> call, wrote |-> FALSE]
             ELSE IF ~test /\ rows[tile_index].ingest # "IngestRunning"
                  THEN [pc |-> "raised", error |-> "ValueError", call |-> call, wrote |-> FALSE]
                  ELSE [pc |-> "checked", call |-> call, tile_index |-> tile_index]]
       /\ ret' = NoRet
       /\ UNCHANGED <<tileVars, oneDVars, sheet, jobs>>

\* ... and from there to its end: the sheet cell is written, then
\* db.update_3d_pipeline_ingest(tile_number, band_number, status) is called
\* without the conn that the function requires, which raises TypeError
\* before the database is reached
FinalizeWrite(f) ==
    /\ fin[f].pc = "checked"
    /\ sheet' = [sheet EXCEPT ![fin[f].call.band_number] =
                    SheetUpdate(@, fin[f].tile_index, fin[f].call.status)]
    /\ fin' = [fin EXCEPT ![f] =
                  [pc |-> "raised", error |-> "TypeError", call |-> fin[f].call, wrote |-> TRUE]]
    /\ ret' = NoRet
    /\ UNCHANGED <<tileVars, oneDVars, jobs>>

\* the next call of the same worker
FinalizeReturn(f) ==
    /\ fin[f].pc = "raised"
    /\ fin' = [fin EXCEPT ![f] = Idle]
    /\ ret' = NoRet
    /\ UNCHANGED <<tileVars, oneDVars, sheet, jobs>>

SheetTexts == {"", "IngestRunning", "Ingested"}

\* tile 1 is in the band-1 table and may be in the sheets
InitFinalize ==
    /\ \E i \in {"", "IngestRunning", "Ingested"} :
          tile3d = [b \in Bands |->
                      IF b = "1" THEN {TileRow(1, "Completed", "Good", i)} ELSE {}]
    /\ observation = [n \in ObsNames |-> NULL]
    /\ associated_tile = {}
    /\ partial_tile = [b \in Bands |-> {}]
    /\ obs1d = [b \in Bands |-> {}]
    /\ \E s1 \in SheetTexts, s2 \in {"", "IngestRunning"} :
          sheet = [b \in Bands |->
                     IF b = "1" THEN <<SheetRow("2", ""), SheetRow("1", s1)>>
                     ELSE <<SheetRow("1", s2)>>]
    /\ fin = [f \in Finalizers |-> Idle]
    /\ jobs = {}
    /\ ret = NoRet

NextFinalize ==
    \/ \E t \in TileIds, band \in BandNames : update_status(t, band, "IngestRunning")
    \/ \E f \in Finalizers, t \in TileIds, band \in BandNames,
          s \in {"Ingested", "IngestFailed"}, test \in BOOLEAN :
          FinalizeCheck(f, t, band, s, test)
    \/ \E f \in Finalizers : FinalizeWrite(f)
    \/ \E f \in Finalizers : FinalizeReturn(f)

SpecFinalize == InitFinalize /\ [][NextFinalize]_vars

\* do_ingest, after the ingest script has run: success is what check_report
\* found in the report (24 inputs and 24 successes), CADCsuccess whether
\* check_CADC found every 3D product.  update_validation_spreadsheet(...,
\* status, test) raises ValueError for a tile the sheet does not have and, test
\* off, for a cell that is not "IngestRunning"; else it writes the cell and
\* then calls db.update_3d_pipeline_ingest without conn, which raises
\* TypeError.  The flow ends there in every case: update_status_spreadsheet
\* (the date) and the ValueError of the last line are not reached
do_ingest(tilenumber, band, test, success, CADCsuccess) ==
    LET status == IF success /\ CADCsuccess THEN "Ingested" ELSE "IngestFailed"
        band_number == get_band_number(band)
        rows == sheet[band_number]
        tile_index == TileIndex(rows, Str(tilenumber))
    IN IF tile_index = 0 \/ (~test /\ rows[tile_index].ingest # "IngestRunning")
       THEN /\ ret' = [op |-> "do_ingest", status |-> status, error |-> "ValueError",
                       raised_by |-> "precondition"]
            /\ UNCHANGED <<tileVars, oneDVars, finVars>>
       ELSE /\ sheet' = [sheet EXCEPT ![band_number] = SheetUpdate(@, tile_index, status)]
            /\ ret' = [op |-> "do_ingest", status |-> status, error |-> "TypeError",
                       raised_by |-> "update_3d_pipeline_ingest"]
            /\ UNCHANGED <<tileVars, oneDVars, fin, jobs>>

NextDoIngest ==
    \/ \E t \in TileIds, band \in BandNames : update_status(t, band, "IngestRunning")
    \/ \E t \in TileIds, band \in BandNames, test, success, CADCsuccess \in BOOLEAN :
          do_ingest(t, band, test, success, CADCsuccess)

SpecDoIngest == InitFinalize /\ [][NextDoIngest]_vars

-----------------------------------------------------------------------------
(* Import of the partial-tile sheet: insert_partial_tile_data, run by the  *)
(* script in one transaction.                                              *)

\* ON CONFLICT (generated_key) DO UPDATE SET the status and the sources
InsertOnConflictOverwrite(table, r) ==
    {q \in table : generated_key(q) # generated_key(r)} \cup {r}

\* INSERT ... ON CONFLICT (generated_key) DO NOTHING
InsertOnConflictDoNothing(table, r) ==
    IF \E q \in table : generated_key(q) = generated_key(r)
    THEN table
    ELSE table \cup {r}

\* execute_batch: the rows of the sheet, one INSERT after the other
RECURSIVE ImportRows(_, _)
ImportRows(table, rows) ==
    IF rows = <<>> THEN table
    ELSE ImportRows(InsertOnConflictDoNothing(table, InsertArgs(Head(rows))), Tail(rows))

\* no row of the sheet breaks a CHECK of the table
SnapshotValid(rows) == \A k \in 1..Len(rows) : ChecksPass(InsertArgs(rows[k]))

\* a row that breaks a CHECK raises out of execute_batch and the
\* "with connection" block rolls the transaction back
insert_partial_tile_data(tile_data) ==
    LET imported == ImportRows(partial_tile["1"], tile_data)
    IN /\ Cardinality(imported) + Cardinality(partial_tile["2"]) <= MaxPartialRows
       /\ IF SnapshotValid(tile_data)
          THEN /\ partial_tile' = [partial_tile EXCEPT !["1"] = imported]
               /\ ret' = [op |-> "insert_partial_tile_data", tile_data |-> tile_data,
                          inserted |-> Cardinality(imported) - Cardinality(partial_tile["1"])]
          ELSE /\ partial_tile' = partial_tile
               /\ ret' = [op |-> "insert_partial_tile_data", tile_data |-> tile_data,
                          error |-> "CheckViolation"]
       /\ UNCHANGED <<tileVars, obs1d, finVars>>

\* rows of the sheet: a center tile in three states of the sheet, an edge
\* tile, and a row whose type does not fit its tiles
SheetRows ==
    {<<"EMU_A", "54926", "1", "", "", "", "center", "12", "">>,
     <<"EMU_A", "54926", "1", "", "", "", "center", "12", "Running">>,
     <<"EMU_A", "54926", "1", "", "", "", "center", "", "">>,
     <<"EMU_B", "54926", "1", "2", "", "", "edge", "12", "">>,
     <<"EMU_B", "54926", "2", "", "", "", "edge", "12", "">>}

\* rows of one sheet
MaxSheetRows == 2
Snapshots == UNION {[1..n -> SheetRows] : n \in 1..MaxSheetRows}

InitImport == InitStore

NextImport ==
    \/ \E tile_data \in Snapshots : insert_partial_tile_data(tile_data)
    \/ \E t \in {<<"EMU_A", "1", "">>, <<"EMU_B", "1", "2">>},
          b \in {"1", "3"}, s \in {"Running", "Completed"} :
          update_partial_tile_1d_pipeline_status(t[1], <<t[2], t[3], "", "">>, b, s)

SpecImport == InitImport /\ [][NextImport]_vars

-----------------------------------------------------------------------------
(* The status updates of the tile and observation tables.                  *)

\* WHERE tile_id = %s with a text parameter: the text names a tile when it is
\* a number; any other text matches no row (or is refused by the store, which
\* execute_update_query prints before it returns 0)
TileIdIs(r, text) == isdigit(text) /\ r.tile_id = ToInt(text)

\* UPDATE ... SET "3d_pipeline_val" = %s, "3d_val_link" = %s WHERE tile_id = %s
\* with params = (status, tile_number, val_link)
Update3dValRows(rows, status, tile_number, val_link) ==
    {IF TileIdIs(r, val_link)
     THEN [r EXCEPT !.val = status, !.link = Str(tile_number)]
     ELSE r : r \in rows}

update_3d_pipeline_val(tile_number, band_number, status, val_link) ==
    IF ~validate_band_number(band_number)
    THEN /\ ret' = Raised("update_3d_pipeline_val", "ValueError")
         /\ UNCHANGED <<tileVars, oneDVars, finVars>>
    ELSE /\ tile3d' = [tile3d EXCEPT ![band_number] =
                          Update3dValRows(@, status, tile_number, val_link)]
         /\ ret' = Returned("update_3d_pipeline_val", band_number,
                            Cardinality({r \in tile3d[band_number] : TileIdIs(r, val_link)}))
         /\ UNCHANGED <<observation, associated_tile, oneDVars, finVars>>

\* INSERT (name, sbid, single_sb_1d_pipeline) ... ON CONFLICT (name) DO UPDATE
\* SET single_sb_1d_pipeline = status
update_single_sb_1d_pipeline_status(field_name, sbid, band_number, status) ==
    IF ~validate_band_number(band_number)
    THEN /\ ret' = Raised("update_single_sb_1d_pipeline_status", "ValueError")
         /\ UNCHANGED <<tileVars, oneDVars, finVars>>
    ELSE /\ obs1d' = [obs1d EXCEPT ![band_number] =
                IF \E o \in @ : o.name = field_name
                THEN {IF o.name = field_name THEN [o EXCEPT !.single_sb = status] ELSE o
                         : o \in @}
                ELSE @ \cup {ObsRow(field_name, sbid, NULL, status)}]
         /\ ret' = Returned("update_single_sb_1d_pipeline_status", band_number, 1)
         /\ UNCHANGED <<tileVars, partial_tile, finVars>>

\* the validation links update_validation_spreadsheet passes when it finds no
\* single report (the link of a report is a URL, and like these not a number)
ValLinks == {"HTMLFileNotFound", "MultipleHTMLFiles"}

InitUpdates == InitStore

NextUpdates ==
    \/ \E t \in TileIds : insert_3d_pipeline_test_data("1", t, NULL, NULL, NULL)
    \/ \E t \in TileIds, b \in BandArgs : update_3d_pipeline(t, b, "Running")
    \/ \E t \in TileIds, b \in BandArgs : update_3d_pipeline_ingest(t, b, "Ingested")
    \/ \E t \in TileIds, b \in BandArgs, l \in ValLinks :
          update_3d_pipeline_val(t, b, "Good", l)
    \/ \E b \in BandArgs :
          update_1d_pipeline_validation_status("EMU_A", ObsSbid["EMU_A"], b, "Running")
    \/ \E b \in BandArgs :
          update_single_sb_1d_pipeline_status("EMU_A", ObsSbid["EMU_A"], b, "Completed")

SpecUpdates == InitUpdates /\ [][NextUpdates]_vars

-----------------------------------------------------------------------------
(* Writes that name their column: update_3d_pipeline_table(tile_number,    *)
(* band_number, status, column_name), the operation update_status of       *)
(* check_status_and_launch_3Dpipeline_v2 and the unit tests call.          *)

\* the status columns of the tile tables a write may name, and the field of
\* TileRow each one is
ColumnField ==
    [c \in {"3d_pipeline", "3d_pipeline_val", "3d_pipeline_ingest", "3d_val_link"} |->
        CASE c = "3d_pipeline" -> "pipeline"
          [] c = "3d_pipeline_val" -> "val"
          [] c = "3d_pipeline_ingest" -> "ingest"
          [] c = "3d_val_link" -> "link"]

AllowedColumns == DOMAIN ColumnField

\* column names a caller may pass: the allowed ones, and columns of the tile
\* tables that are not status columns
ColumnArgs == AllowedColumns \cup {"tile_id", "cube_state"}

\* UPDATE ... SET "<column_name>" = status WHERE tile_id = tile_number
UpdateColumnRows(rows, tile_number, column_name, status) ==
    {IF r.tile_id = tile_number /\ column_name \in DOMAIN ColumnField
     THEN [r EXCEPT ![ColumnField[column_name]] = status]
     ELSE r : r \in rows}

\* the write without the test of the column name
update_3d_pipeline_table_unchecked(tile_number, band_number, status, column_name) ==
    IF ~validate_band_number(band_number)
    THEN /\ ret' = Raised("update_3d_pipeline_table", "ValueError")
         /\ UNCHANGED <<tileVars, oneDVars, finVars>>
    ELSE /\ tile3d' = [tile3d EXCEPT ![band_number] =
                          UpdateColumnRows(@, tile_number, column_name, status)]
         /\ ret' = Returned("update_3d_pipeline_table", band_number,
                            RowCount(tile3d[band_number], tile_number))
         /\ UNCHANGED <<observation, associated_tile, oneDVars, finVars>>

\* both tests come before any statement; which of the two errors a call with a
\* bad column and a bad band raises is not fixed
update_3d_pipeline_table(tile_number, band_number, status, column_name) ==
    \/ /\ column_name \notin AllowedColumns
       /\ ret' = Raised("update_3d_pipeline_table", "ConfigurationError")
       /\ UNCHANGED <<tileVars, oneDVars, finVars>>
    \/ /\ ~validate_band_number(band_number)
       /\ ret' = Raised("update_3d_pipeline_table", "ValueError")
       /\ UNCHANGED <<tileVars, oneDVars, finVars>>
    \/ /\ column_name \in AllowedColumns
       /\ validate_band_number(band_number)
       /\ tile3d' = [tile3d EXCEPT ![band_number] =
                        UpdateColumnRows(@, tile_number, column_name, status)]
       /\ ret' = Returned("update_3d_pipeline_table", band_number,
                          RowCount(tile3d[band_number], tile_number))
       /\ UNCHANGED <<observation, associated_tile, oneDVars, finVars>>

InitColumnWrites == InitStore

NextColumnWrites ==
    \/ \E t \in TileIds : insert_3d_pipeline_test_data("1", t, NULL, NULL, NULL)
    \/ \E t \in TileIds, b \in BandArgs, c \in ColumnArgs :
          update_3d_pipeline_table(t, b, "Running", c)

SpecColumnWrites == InitColumnWrites /\ [][NextColumnWrites]_vars

-----------------------------------------------------------------------------
(* Inserts of rows of every shape into the partial-tile table of band 1,   *)
(* the band that has 1D data.                                              *)

\* the tile slots of the input rows: one, two, three and four tiles, equal
\* tiles, no tile, a gap, and a text that is no number in an absent slot
ShapeSlots ==
    {<<"1", "", "", "">>, <<"1", "2", "", "">>, <<"1", "2", "3", "">>,
     <<"1", "2", "3", "12">>, <<"1", "1", "", "">>, <<"1", "2", "3", "1">>,
     <<"", "", "", "">>, <<"1", "", "2", "">>, <<"1", "x", "", "">>}

ShapeTypes ==
    {"center", "Center", "edge", "Edge - Crosses Projection Boundary!", "corner",
     "Corner - Crosses Projection Boundary!"}

\* rows of the sheet: observation, sbid, tile1..tile4, type, number_sources, 1d_pipeline
\* (not started yet; the center rows of tile 1 also as completed)
ShapeInputRows ==
    {<<"EMU_A", "46955", sl[1], sl[2], sl[3], sl[4], ty, "3", "">> :
        sl \in ShapeSlots, ty \in ShapeTypes}
    \cup {<<"EMU_A", "46955", "1", x, "", "", ty, "3", "Completed">> :
             x \in {"", "x"}, ty \in {"center", "Center"}}

NextShapes ==
    \E row \in ShapeInputRows : insert_row_into_partial_tile_table(row, "1")

SpecShapes == InitStore /\ [][NextShapes]_vars

-----------------------------------------------------------------------------
(* The two readiness queries of the tile tables together, on band 1.       *)

\* both observations are complete; tile 2 lies in both of them
InitTileQueries ==
    /\ tile3d = [b \in Bands |-> {}]
    /\ observation = [n \in ObsNames |-> "COMPLETED"]
    /\ associated_tile = {<<"EMU_A", 1>>, <<"EMU_A", 2>>, <<"EMU_B", 2>>}
    /\ partial_tile = [b \in Bands |-> {}]
    /\ obs1d = [b \in Bands |-> {}]
    /\ sheet = [b \in Bands |-> <<>>]
    /\ fin = <<>>
    /\ jobs = {}
    /\ ret = NoRet

NextTileQueries ==
    \/ \E t \in TileIds, p \in {NULL, "Running"}, v \in {"Good", "Bad"} :
          insert_3d_pipeline_test_data("1", t, p, v, NULL)
    \/ \E t \in TileIds, s \in {NULL, "", "IngestRunning", "Ingested", "IngestFailed"} :
          update_3d_pipeline_ingest(t, "1", s)
    \/ \E b \in Bands : get_tiles_for_ingest(b)
    \/ \E b \in Bands : get_tiles_for_pipeline_run(b)

SpecTileQueries == InitTileQueries /\ [][NextTileQueries]_vars

-----------------------------------------------------------------------------
(* Status updates by the four-slot key, on a table of band 1 that holds    *)
(* the shapes together.                                                    *)

\* EMU_A: a center, an edge and a corner row that all start with tile 1, the
\* edge crossing a projection boundary; EMU_B: a center row of tile 1
InitSlots ==
    /\ tile3d = [b \in Bands |-> {}]
    /\ observation = [n \in ObsNames |-> NULL]
    /\ associated_tile = {}
    /\ partial_tile = [b \in Bands |->
          IF b = "1"
          THEN {InsertArgs(<<"EMU_A", ObsSbid["EMU_A"], "1", "", "", "", "center", "3", "">>),
                InsertArgs(<<"EMU_A", ObsSbid["EMU_A"], "1", "2", "", "",
                             "Edge - Crosses Projection Boundary!", "3", "">>),
                InsertArgs(<<"EMU_A", ObsSbid["EMU_A"], "1", "2", "3", "12", "corner", "3", "">>),
                InsertArgs(<<"EMU_B", ObsSbid["EMU_B"], "1", "", "", "", "center", "3", "">>)}
          ELSE {}]
    /\ obs1d = [b \in Bands |-> {}]
    /\ sheet = [b \in Bands |-> <<>>]
    /\ fin = <<>>
    /\ jobs = {}
    /\ ret = NoRet

\* SELECT EXISTS (SELECT 1 ... WHERE sbid = %s AND observation = %s
\*                AND LOWER(type) like '%crosses projection boundary%')
\* results[0][0]; for a band without tables the store raises, execute_query
\* returns [] and results[0] raises IndexError
find_boundary_issues(sbid, observation_name, band_number) ==
    /\ ret' = IF band_number \notin Bands
              THEN Raised("find_boundary_issues", "IndexError")
              ELSE Returned("find_boundary_issues", band_number,
                      \E pt \in PartialTable(band_number) :
                          And3(Eq3(pt.sbid, sbid),
                               And3(Eq3(pt.observation, observation_name),
                                    LikeBoundary3(pt.type))) = T3)
    /\ UNCHANGED <<tileVars, oneDVars, finVars>>

\* util.get_full_field_name: "EMU_" or "WALLABY_" before the field id
get_full_field_name(field_ID, band) ==
    IF band = "943MHz"
    THEN IF field_ID = "A" THEN "EMU_A" ELSE "EMU_B"
    ELSE IF field_ID = "A" THEN "WALLABY_A" ELSE "WALLABY_B"

\* main of log_processing_status_1D_PartialTiles_summary: log_status is what the
\* log files of the summary run give.  The first statement that touches the
\* store is db.update_1d_pipeline_validation_status(full_field_name, SB_num,
\* band_number, status), four arguments for the five parameters
\* (field_name, sbid, band_number, status, conn): the call raises TypeError
\* and main ends there
log_processing_status_1D_PartialTiles_summary(field_ID, SB_num, band, log_status) ==
    /\ ret' = [op |-> "log_processing_status_1D_PartialTiles_summary",
               field |-> get_full_field_name(field_ID, band), status |-> log_status,
               error |-> "TypeError"]
    /\ UNCHANGED <<tileVars, oneDVars, finVars>>

\* the tile_numbers of the calls: absent slots as None, as '' and mixed, the
\* three keys of the table and a key no row has
SlotArgs ==
    {<<"1", NULL, NULL, NULL>>, <<"1", "", "", "">>, <<"1", "2", "", NULL>>,
     <<"1", "2", "3", "12">>, <<"2", "", "", "">>}

NextSlots ==
    \/ \E n \in ObsNames, tn \in SlotArgs, s \in {"Running", "Completed", "Failed"} :
          update_partial_tile_1d_pipeline_status(n, tn, "1", s)
    \/ \E n \in ObsNames, b \in BandArgs : find_boundary_issues(ObsSbid[n], n, b)
    \/ \E f \in {"A", "B"}, s \in {"Completed", "Failed", "NotStarted"} :
          log_processing_status_1D_PartialTiles_summary(
              f, get_sbid_num(ObsSbid[get_full_field_name(f, "943MHz")]), "943MHz", s)

SpecSlots == InitSlots /\ [][NextSlots]_vars

-----------------------------------------------------------------------------
(* The 3D pipeline status of a tile: the launcher                          *)
(* (check_status_and_launch_3Dpipeline_v2) and the status logger           *)
(* (log_processing_status_3Dpipeline), on tiles the database holds.        *)

\* launch_band1_3Dpipeline: execute_query returns the rows of the readiness
\* query as 1-tuples, the CANFAR listing holds names; the first element of the
\* set of tiles in both is launched and update_status records "Running" with
\* update_3d_pipeline_table(..., "3d_pipeline_val") when the status sheet has
\* the tile (found)
launch_band1_3Dpipeline(canfar_tilenumbers, found) ==
    LET rows == PipelineRunQueryRows(tile3d["1"])
        tile_numbers == {[type |-> "tuple", text |-> Str(rows[k][1])] : k \in 1..Len(rows)}
        canfar == {[type |-> "str", text |-> c] : c \in canfar_tilenumbers}
        tiles_on_both == tile_numbers \cap canfar
    IN IF tiles_on_both = {}
       THEN /\ ret' = [op |-> "launch_band1_3Dpipeline", launched |-> {}]
            /\ UNCHANGED <<tileVars, oneDVars, finVars>>
       ELSE \E tilenumber \in tiles_on_both :
               /\ tile3d' = IF found
                            THEN [tile3d EXCEPT !["1"] =
                                    UpdateColumnRows(@, ToInt(tilenumber.text),
                                                     "3d_pipeline_val", "Running")]
                            ELSE tile3d
               /\ jobs' = jobs \cup {[kind |-> "3d", field |-> tilenumber.text,
                                       tiles |-> <<>>, sbid |-> NULL]}
               /\ ret' = [op |-> "launch_band1_3Dpipeline",
                          launched |-> {tilenumber.text}]
               /\ UNCHANGED <<observation, associated_tile, oneDVars, sheet, fin>>

\* update_status of check_status_and_launch_3Dpipeline_v2: the cell of the
\* status sheet is set and, when the sheet has the tile (found), the database
\* with update_3d_pipeline_table(tile_number, band_number, status, "3d_pipeline_val")
launcher_update_status(tile_number, band, status, found) ==
    LET band_number == get_band_number(band)
    IN /\ tile3d' = IF found
                    THEN [tile3d EXCEPT ![band_number] =
                            UpdateColumnRows(@, tile_number, "3d_pipeline_val", status)]
                    ELSE tile3d
       /\ ret' = [op |-> "launcher_update_status", tile |-> tile_number, found |-> found]
       /\ UNCHANGED <<observation, associated_tile, oneDVars, finVars>>

\* log_processing_status_3Dpipeline, __main__: log_status is what the log files
\* of the tile say ("NotStarted" without a log file); "Completed" is recorded
\* as "WaitingForValidation"; update_status_spreadsheet writes the database
\* with update_3d_pipeline when the status sheet has the tile (found), then
\* update_validation_spreadsheet calls update_3d_pipeline_val
log_processing_status_3Dpipeline(tilenumber, band, log_status, found, validation_link) ==
    LET status == IF log_status = "Completed" THEN "WaitingForValidation" ELSE log_status
        band_number == get_band_number(band)
        logged == IF found
                  THEN Update3dPipelineRows(tile3d[band_number], tilenumber, status)
                  ELSE tile3d[band_number]
    IN /\ tile3d' = [tile3d EXCEPT ![band_number] =
                        Update3dValRows(logged, status, tilenumber, validation_link)]
       /\ ret' = [op |-> "log_processing_status_3Dpipeline", status |-> status]
       /\ UNCHANGED <<observation, associated_tile, oneDVars, finVars>>

\* tiles that wait for the 3D pipeline, with the status absent or empty
InitLifecycle3D ==
    /\ tile3d = [b \in Bands |->
                   IF b = "1" THEN {TileRow(1, NULL, NULL, NULL), TileRow(2, "", NULL, NULL)}
                   ELSE {TileRow(1, NULL, NULL, NULL)}]
    /\ observation = [n \in ObsNames |-> "COMPLETED"]
    /\ associated_tile = {<<"EMU_A", 1>>, <<"EMU_A", 2>>, <<"EMU_B", 2>>}
    /\ partial_tile = [b \in Bands |-> {}]
    /\ obs1d = [b \in Bands |-> {}]
    /\ sheet = [b \in Bands |-> <<>>]
    /\ fin = <<>>
    /\ jobs = {}
    /\ ret = NoRet

NextLifecycle3D ==
    \/ \E c \in SUBSET {"1", "2"}, found \in BOOLEAN : launch_band1_3Dpipeline(c, found)
    \/ \E t \in TileIds, found \in BOOLEAN :
          launcher_update_status(t, "943MHz", "Running", found)
    \/ \E t \in TileIds, band \in BandNames, found \in BOOLEAN,
          s \in {"Completed", "Failed", "NotStarted"},
          l \in ValLinks \cup {"https://ws-uv.canfar.net/validation.html"} :
          log_processing_status_3Dpipeline(t, band, s, found, l)

SpecLifecycle3D == InitLifecycle3D /\ [][NextLifecycle3D]_vars

-----------------------------------------------------------------------------
(* The 1D pipeline status of a partial tile and the validation status of   *)
(* its observation: the launcher                                           *)
(* (check_status_and_launch_1Dpipeline_PartialTiles) and the status logger *)
(* the launched job runs at its end (log_processing_status_1D_PartialTiles).*)

\* a write that names no column of the observation table: the rows stay
Update1dColumnRowsNowhere(rows, field_names, column_name, status) == rows

\* update_1d_pipeline_table(field_name, band_number, status, column_name) for
\* every field_name of a set: the named column of the observation's row is
\* set, a row is made for an observation that has none
Update1dColumnRows(rows, field_names, column_name, status) ==
    {IF o.name \in field_names
     THEN IF column_name = "1d_pipeline_validation" THEN [o EXCEPT !.validation = status]
          ELSE IF column_name = "single_sb_1d_pipeline" THEN [o EXCEPT !.single_sb = status]
          ELSE o
     ELSE o : o \in rows}
    \cup {IF column_name = "1d_pipeline_validation" THEN ObsRow(n, NULL, status, NULL)
          ELSE ObsRow(n, NULL, NULL, status) :
             n \in {m \in field_names : \A o \in rows : o.name # m}}

\* launch_band1_1Dpipeline: one poll of the launcher.  canfar_fields are the
\* field ids that have a source list on CANFAR, predl_sbids the survey blocks
\* with a pre-dl job in progress.  A summary job is launched for every
\* observation of the two worklists and its validation is set to "Running";
\* then the first ready partial tile that has a source list and no pre-dl job
\* is launched and update_partial_tile_1d_pipeline_status(field, ...) is
\* called, where field is the variable the summary loops left behind: unbound
\* when neither loop ran
launch_band1_1Dpipeline(canfar_fields, predl_sbids) ==
    \E run \in {PipelineRun(rows, complete, nonedge) :
                    rows \in ReadyResults("1"),
                    complete \in {GroupRows(full, <<>>) : full \in CompleteResults("1")},
                    nonedge \in {GroupRows(skip, <<>>) : skip \in NonEdgeResults("1")}} :
       LET fields_to_validate == run.can_make_validation
           boundary == run.can_make_val_if_skip_edges
           summaries == {fields_to_validate[k] : k \in DOMAIN fields_to_validate}
                           \cup boundary
           last_fields == IF boundary # {} THEN {key[1] : key \in boundary}
                          ELSE IF Len(fields_to_validate) > 0
                               THEN {fields_to_validate[Len(fields_to_validate)][1]}
                               ELSE {}
           field_IDs == run.fields_to_run
           fields_on_both == {field_IDs[i] : i \in DOMAIN field_IDs} \cap canfar_fields
           candidates == {i \in DOMAIN field_IDs :
                             /\ field_IDs[i] \in fields_on_both
                             /\ run.SBids_to_run[i] \notin predl_sbids}
           i == CHOOSE c \in candidates : \A d \in candidates : c <= d
           tilenumbers == <<run.tile1_to_run[i], run.tile2_to_run[i],
                            run.tile3_to_run[i], run.tile4_to_run[i]>>
           job == [kind |-> "1d", field |-> field_IDs[i], tiles |-> tilenumbers,
                   sbid |-> run.SBids_to_run[i]]
           summary_jobs == {[kind |-> "summary", field |-> remove_prefix(key[1]),
                             tiles |-> <<>>, sbid |-> key[2]] : key \in summaries}
       IN /\ obs1d' = [obs1d EXCEPT !["1"] =
                          Update1dColumnRows(@, {key[1] : key \in summaries},
                                             "1d_pipeline_validation", "Running")]
          /\ IF candidates = {}
             THEN /\ partial_tile' = partial_tile
                  /\ jobs' = jobs \cup summary_jobs
                  /\ ret' = [op |-> "launch_band1_1Dpipeline", summaries |-> summaries,
                             launched |-> {}]
             ELSE IF last_fields = {}
             THEN /\ partial_tile' = partial_tile
                  /\ jobs' = jobs \cup summary_jobs \cup {job}
                  /\ ret' = [op |-> "launch_band1_1Dpipeline", summaries |-> summaries,
                             launched |-> {job}, error |-> "UnboundLocalError"]
             ELSE \E field \in last_fields :
                  /\ partial_tile' = [partial_tile EXCEPT !["1"] =
                        {IF UpdateStatusWhere(r, field, tilenumbers) = T3
                         THEN [r EXCEPT !.status = "Running"] ELSE r : r \in @}]
                  /\ jobs' = jobs \cup summary_jobs \cup {job}
                  /\ ret' = [op |-> "launch_band1_1Dpipeline", summaries |-> summaries,
                             launched |-> {job}]
          /\ UNCHANGED <<tileVars, sheet, fin>>

\* log_processing_status_1D_PartialTiles, __main__, at the end of a launched
\* job: log_status is what the log files of the run say ("NotStarted" without
\* a log file)
log_processing_status_1D_PartialTiles(job, band, log_status) ==
    LET fieldname == get_full_field_name(job.field, band)
        band_number == get_band_number(band)
    IN /\ job \in jobs /\ job.kind = "1d"
       /\ partial_tile' = [partial_tile EXCEPT ![band_number] =
             {IF UpdateStatusWhere(r, fieldname, job.tiles) = T3
              THEN [r EXCEPT !.status = log_status] ELSE r : r \in @}]
       /\ jobs' = jobs \ {job}
       /\ ret' = [op |-> "log_processing_status_1D_PartialTiles", status |-> log_status]
       /\ UNCHANGED <<tileVars, obs1d, sheet, fin>>

\* two observations whose partial tiles wait for the 1D pipeline: EMU_A has
\* two center tiles and a tile on a projection boundary, EMU_B one center
\* tile, on tile 1 as a center tile of EMU_A is
InitLifecycle1D ==
    /\ tile3d = [b \in Bands |-> {}]
    /\ observation = [n \in ObsNames |-> NULL]
    /\ associated_tile = {}
    /\ partial_tile = [b \in Bands |->
          IF b = "1"
          THEN {InsertArgs(<<"EMU_A", ObsSbid["EMU_A"], "1", "", "", "", "center", "3", "">>),
                InsertArgs(<<"EMU_A", ObsSbid["EMU_A"], "1", "2", "", "",
                             "Edge - Crosses Projection Boundary!", "3", "">>),
                InsertArgs(<<"EMU_A", ObsSbid["EMU_A"], "2", "", "", "", "center", "3", "">>),
                InsertArgs(<<"EMU_B", ObsSbid["EMU_B"], "1", "", "", "", "center", "3", "">>)}
          ELSE {}]
    /\ obs1d = [b \in Bands |->
                  IF b = "1" THEN {ObsRow(n, ObsSbid[n], NULL, NULL) : n \in ObsNames}
                  ELSE {}]
    /\ sheet = [b \in Bands |-> <<>>]
    /\ fin = <<>>
    /\ jobs = {}
    /\ ret = NoRet

NextLifecycle1D ==
    \/ \E c \in {{"A", "B"}, {"B"}, {}}, p \in {{}, {"46955"}} :
          launch_band1_1Dpipeline(c, p)
    \/ \E job \in jobs, s \in {"Completed", "Failed", "NotStarted"} :
          log_processing_status_1D_PartialTiles(job, "943MHz", s)

SpecLifecycle1D == InitLifecycle1D /\ [][NextLifecycle1D]_vars

-----------------------------------------------------------------------------
(* C1: for every band, get_tiles_for_ingest(band) returns a flat list of   *)
(* tile ids (no tuples) holding exactly the tiles of that band's table     *)
(* whose 3d_pipeline_val is 'good' in any letter case and whose            *)
(* 3d_pipeline_ingest is NULL or ''; a tile whose validation is 'Bad', ''  *)
(* or NULL is never returned.                                              *)

GoodInAnyCase == {"good", "Good", "GOOD"}

ReadyForIngest(band) ==
    {r.tile_id : r \in {q \in tile3d[band] :
                            q.val \in GoodInAnyCase /\ q.ingest \in {NULL, ""}}}

C1_IngestReadyExact ==
    (ret.op = "get_tiles_for_ingest" /\ "value" \in DOMAIN ret) =>
        /\ ret.value \in Seq(TileIds)
        /\ {ret.value[k] : k \in 1..Len(ret.value)} = ReadyForIngest(ret.band)
        /\ \A r \in tile3d[ret.band] :
              r.val \in {"Bad", "", NULL} =>
                  \A k \in 1..Len(ret.value) : ret.value[k] # r.tile_id

\* band 2 holds a tile validated 'GOOD' with ingest '' (returned) and a tile
\* validated 'Good' and already 'Ingested' (not returned)
C1_Witness ==
    /\ ret.op = "get_tiles_for_ingest" /\ "value" \in DOMAIN ret /\ ret.band = "2"
    /\ \E r, q \in tile3d["2"] :
          /\ r.val = "GOOD" /\ r.ingest = "" /\ ret.value = <<r.tile_id>>
          /\ q.val = "Good" /\ q.ingest = "Ingested"

-----------------------------------------------------------------------------
(* C2: get_tiles_for_pipeline_run(band) returns a tile if and only if an   *)
(* observation associated with it has cube_state 'COMPLETED' compared      *)
(* case-insensitively and the tile's 3d_pipeline is NULL or ''.            *)

CompletedInAnyCase == {"completed", "Completed", "COMPLETED"}

ReadyForStage3(band) ==
    {r.tile_id : r \in {q \in tile3d[band] :
        /\ q.pipeline \in {NULL, ""}
        /\ \E n \in ObsNames : /\ <<n, q.tile_id>> \in associated_tile
                                /\ observation[n] \in CompletedInAnyCase}}

C2_Stage3ReadyExact ==
    (ret.op = "get_tiles_for_pipeline_run" /\ "value" \in DOMAIN ret) =>
        {ret.value[k][1] : k \in 1..Len(ret.value)} = ReadyForStage3(ret.band)

-----------------------------------------------------------------------------
\* what the completion claims call a finished observation
RowsOf(band, O) == {pt \in partial_tile[band] : pt.observation = O}
ValidationBlank(band, O) ==
    \E ob \in obs1d[band] : ob.name = O /\ ob.validation \in {NULL, ""}
BoundaryTypes ==
    {"edge - crosses projection boundary!", "Edge - Crosses Projection Boundary!",
     "corner - crosses projection boundary!", "Corner - Crosses Projection Boundary!"}
NonBoundaryRowsOf(band, O) == {pt \in RowsOf(band, O) : pt.type \notin BoundaryTypes}

(* C3: get_results_per_field_sbid reports an observation that has           *)
(* partial-tile rows complete if and only if every one of its rows has a   *)
(* 1d_pipeline of 'completed' in any case and its 1d_pipeline_validation   *)
(* is NULL or blank; one sibling that is Running, blank or NULL makes it   *)
(* not complete.                                                           *)
C3_AllTilesDone ==
    (ret.op = "get_results_per_field_sbid" /\ ret.band \in Bands) =>
        \A O \in ObsNames :
            RowsOf(ret.band, O) # {} =>
                /\ \E i \in 1..Len(ret.value) : ret.value[i][1][1] = O
                /\ \A i \in 1..Len(ret.value) :
                      ret.value[i][1][1] = O =>
                          (ret.value[i][2] <=>
                              /\ \A pt \in RowsOf(ret.band, O) : pt.status \in CompletedInAnyCase
                              /\ ValidationBlank(ret.band, O))

(* C4: get_results_per_field_sbid_skip_edges reports True for an            *)
(* observation if and only if all of its rows whose type does not contain  *)
(* 'crosses projection boundary' have a 1d_pipeline of 'completed' in any  *)
(* case and its validation is NULL or blank; one non-boundary sibling that *)
(* is not completed makes it False.  (Stated for observations that have a  *)
(* non-boundary row.)                                                      *)
C4_NonEdgeAllDone ==
    (ret.op = "get_results_per_field_sbid_skip_edges" /\ ret.band \in Bands) =>
        \A O \in ObsNames :
            NonBoundaryRowsOf(ret.band, O) # {} =>
                \A i \in 1..Len(ret.value) :
                    ret.value[i][1][1] = O =>
                        (ret.value[i][2] <=>
                            /\ \A pt \in NonBoundaryRowsOf(ret.band, O) :
                                  pt.status \in CompletedInAnyCase
                            /\ ValidationBlank(ret.band, O))

(* C5: all result rows of get_observations_with_complete_partial_tiles for  *)
(* the same (observation, sbid) carry the same value, so the dictionary of *)
(* get_results_per_field_sbid is the same for every order in which the     *)
(* store may return the rows.                                              *)
C5_OneValuePerKey ==
    ret.op = "get_results_per_field_sbid" =>
        /\ \A i, j \in 1..Len(ret.rows) :
              (ret.rows[i][1] = ret.rows[j][1]
                  /\ get_sbid_num(ret.rows[i][2]) = get_sbid_num(ret.rows[j][2]))
              => ret.rows[i][3] = ret.rows[j][3]
        /\ \A other \in CompleteResults(ret.band) :
              {GroupRows(other, <<>>)[i] : i \in 1..Len(GroupRows(other, <<>>))}
                  = {ret.value[i] : i \in 1..Len(ret.value)}

(* C6: the launcher's get_tiles_for_pipeline_run returns two disjoint       *)
(* worklists of (observation, sbid) keys: the fully-complete list and the  *)
(* boundary-issue set, which is the non-edge-complete keys minus the       *)
(* fully-complete keys; no observation appears in both.                    *)
NonEdgeCompleteKeys(band) ==
    {<<pt.observation, get_sbid_num(pt.sbid)>> :
        pt \in {q \in partial_tile[band] : non_edge_complete(band, q)}}
ListSet(seq) == {seq[i] : i \in 1..Len(seq)}
-----------------------------------------------------------------------------
\* text.strip() of the texts in use
Trimmed(s) == IF s = " " THEN "" ELSE s
ReadyAsClaimed(pt) ==
    /\ Trimmed(pt.sbid) \notin {NULL, ""}
    /\ pt.number_sources # NULLINT
    /\ Trimmed(pt.status) \in {NULL, ""}

(* C7: a partial-tile row is returned by                                    *)
(* get_partial_tiles_for_1d_pipeline_run(band) if and only if its sbid is  *)
(* non-null and non-blank after trimming, its number_sources is non-null   *)
(* and its 1d_pipeline is NULL or blank after trimming: a whitespace-only  *)
(* sbid is not ready, a whitespace-only status is ready.                   *)
C7_ReadyExact ==
    (ret.op = "get_partial_tiles_for_1d_pipeline_run" /\ "value" \in DOMAIN ret) =>
        \A pt \in partial_tile[ret.band] :
            ReadyAsClaimed(pt) <=> ReadySelect(pt) \in ListSet(ret.value)

(* C8: the launcher's readiness result is a set of parallel sequences       *)
(* (field ids, tile1..tile4, sbids) of equal length; index i of every      *)
(* sequence describes the same ready row; every populated slot surfaces as *)
(* the string form of its stored tile id and every absent slot as the      *)
(* empty string, never as null.                                            *)
SlotAsClaimed(n) == IF n = NULLINT THEN "" ELSE Str(n)
DescribesRow(v, i, pt) ==
    /\ v.fields_to_run[i] = remove_prefix(pt.observation)
    /\ v.SBids_to_run[i] = get_sbid_num(pt.sbid)
    /\ v.tile1_to_run[i] = SlotAsClaimed(pt.tile1)
    /\ v.tile2_to_run[i] = SlotAsClaimed(pt.tile2)
    /\ v.tile3_to_run[i] = SlotAsClaimed(pt.tile3)
    /\ v.tile4_to_run[i] = SlotAsClaimed(pt.tile4)
C8_ParallelSequences ==
    (ret.op = "launcher_get_tiles_for_pipeline_run" /\ "value" \in DOMAIN ret) =>
        LET v == ret.value
            ready == {pt \in partial_tile[ret.band] : ReadyWhere(pt) = T3}
        IN /\ Len(v.fields_to_run) = Cardinality(ready)
           /\ \A seq \in {v.tile1_to_run, v.tile2_to_run, v.tile3_to_run,
                          v.tile4_to_run, v.SBids_to_run} :
                 Len(seq) = Len(v.fields_to_run)
           /\ \A i \in 1..Len(v.fields_to_run) :
                 \E pt \in ready : DescribesRow(v, i, pt)
           /\ \A pt \in ready :
                 \E i \in 1..Len(v.fields_to_run) : DescribesRow(v, i, pt)
           /\ \A i \in 1..Len(v.fields_to_run) :
                 NULL \notin {v.tile1_to_run[i], v.tile2_to_run[i],
                              v.tile3_to_run[i], v.tile4_to_run[i]}

-----------------------------------------------------------------------------
\* the ingest status the database holds for a tile
StoredIngest(band_number, tile_number) ==
    {r.ingest : r \in {q \in tile3d[band_number] : Str(q.tile_id) = tile_number}}

(* C9: with the test flag off, ingest-finalize on a tile whose stored       *)
(* 3d_pipeline_ingest is not exactly 'IngestRunning' raises and leaves the *)
(* stored status unchanged; on a tile whose stored status is               *)
(* 'IngestRunning' it stores the new status.  (No step of this             *)
(* specification writes the tile table, so the stored status of a finished *)
(* call is the one it was called with; the second half is stated for the   *)
(* calls that found 'IngestRunning' in the sheet as well.)                 *)
C9_FinalizePrecondition ==
    \A f \in Finalizers :
        (fin[f].pc = "raised" /\ ~fin[f].call.test) =>
            \A stored \in StoredIngest(fin[f].call.band_number, fin[f].call.tile_number) :
                /\ stored # "IngestRunning" => "error" \in DOMAIN fin[f]
                /\ (stored = "IngestRunning" /\ fin[f].wrote) => stored = fin[f].call.status

(* C10: of two ingest-finalize calls for the same tile that run together    *)
(* while its stored status is 'IngestRunning', at most one passes the      *)
(* precondition and writes: the check and the write are one atomic step.   *)
C10_OneFinalizerPasses ==
    \A f, g \in Finalizers :
        (/\ f # g
         /\ fin[f].pc = "checked" /\ ~fin[f].call.test
         /\ fin[g].pc = "checked" /\ ~fin[g].call.test
         /\ StoredIngest(fin[f].call.band_number, fin[f].call.tile_number) = {"IngestRunning"})
        => ~(fin[f].call.tile_number = fin[g].call.tile_number
                /\ fin[f].call.band_number = fin[g].call.band_number)

-----------------------------------------------------------------------------
\* the keys of the rows of a table, and of the rows of a sheet
TableKeys(table) == {generated_key(q) : q \in table}
SheetKeys(tile_data) == {generated_key(InsertArgs(tile_data[k])) : k \in 1..Len(tile_data)}

(* C11: importing the same partial-tile sheet a second time, also with     *)
(* status updates between the two imports, leaves the row count and every  *)
(* row's 1d_pipeline and number_sources as they were just before it: no    *)
(* step takes a key out of the table, an import leaves the key of every    *)
(* row of its sheet in the table, and an import of a sheet whose keys are  *)
(* in the table changes no row; an import that raises changes no row.      *)
C11_ImportIdempotent ==
    [][/\ TableKeys(partial_tile["1"]) \subseteq TableKeys(partial_tile'["1"])
       /\ ret'.op = "insert_partial_tile_data" =>
             IF SnapshotValid(ret'.tile_data)
             THEN /\ SheetKeys(ret'.tile_data) \subseteq TableKeys(partial_tile'["1"])
                  /\ SheetKeys(ret'.tile_data) \subseteq TableKeys(partial_tile["1"])
                        => partial_tile' = partial_tile
             ELSE partial_tile' = partial_tile]_vars

\* a sheet was imported again after the status of one of its rows had moved on
C11_Witness ==
    /\ ret.op = "insert_partial_tile_data"
    /\ "inserted" \in DOMAIN ret
    /\ ret.inserted = 0
    /\ \E k \in 1..Len(ret.tile_data), q \in partial_tile["1"] :
          /\ generated_key(q) = generated_key(InsertArgs(ret.tile_data[k]))
          /\ InsertArgs(ret.tile_data[k]).status = ""
          /\ q.status = "Completed"

-----------------------------------------------------------------------------
Blank == {NULL, ""}

(* C12: a per-observation status field is insert-or-update-if-blank: for   *)
(* an existing observation row, an incoming blank value never changes a    *)
(* stored non-blank value, and an incoming non-blank value always          *)
(* overwrites the stored value (stated for                                 *)
(* update_1d_pipeline_validation_status).                                  *)
C12_UpdateIfBlank ==
    [][\A n \in ObsNames, b \in Bands, s \in ValidationTexts :
          update_1d_pipeline_validation_status(n, ObsSbid[n], b, s) =>
              \A o \in obs1d[b] :
                  o.name = n =>
                      \E o2 \in obs1d'[b] :
                          /\ o2.name = n
                          /\ (s \in Blank /\ o.validation \notin Blank)
                                => o2.validation = o.validation
                          /\ s \notin Blank => o2.validation = s]_vars

\* the table after an upsert of value s into the columns cols of the row keyed
\* by key[k] = v: the row is there with the value, what else it held is kept,
\* and the other rows are as they were
Upserted(before, after, k, v, cols, s) ==
    /\ \E r2 \in after :
          /\ r2[k] = v
          /\ r2[CHOOSE c \in cols : TRUE] = s
          /\ \A r \in before : r[k] = v =>
                \A c \in DOMAIN r \ cols : r2[c] = r[c]
    /\ \A r2 \in after : r2[k] # v => r2 \in before
    /\ \A r \in before : r[k] # v => r \in after
    /\ \A r2, r3 \in after : r2[k] = v /\ r3[k] = v => r2 = r3

(* C13: each of update_3d_pipeline, update_3d_pipeline_ingest,             *)
(* update_3d_pipeline_val, update_1d_pipeline_validation_status and        *)
(* update_single_sb_1d_pipeline_status, called with band 1 or 2, is an     *)
(* upsert on its key (tile id, or observation name): after the call the    *)
(* table holds one row with the key carrying the new value in the column   *)
(* the operation names, a row that was there keeps every other column, and *)
(* all other rows are unchanged.                                           *)
C13_UpsertOnNaturalKey ==
    [][/\ \A t \in TileIds, b \in Bands :
            /\ update_3d_pipeline(t, b, "Running") =>
                  Upserted(tile3d[b], tile3d'[b], "tile_id", t, {"pipeline"}, "Running")
            /\ update_3d_pipeline_ingest(t, b, "Ingested") =>
                  Upserted(tile3d[b], tile3d'[b], "tile_id", t, {"ingest"}, "Ingested")
            /\ \A l \in ValLinks : update_3d_pipeline_val(t, b, "Good", l) =>
                  Upserted(tile3d[b], tile3d'[b], "tile_id", t, {"val", "link"}, "Good")
       /\ \A b \in Bands :
            /\ update_1d_pipeline_validation_status("EMU_A", ObsSbid["EMU_A"], b, "Running") =>
                  Upserted(obs1d[b], obs1d'[b], "name", "EMU_A", {"validation"}, "Running")
            /\ update_single_sb_1d_pipeline_status("EMU_A", ObsSbid["EMU_A"], b, "Completed") =>
                  Upserted(obs1d[b], obs1d'[b], "name", "EMU_A", {"single_sb"}, "Completed")]_vars

\* the row of tile t in a tile table
RowOfTile(table, t) == CHOOSE r \in table : r.tile_id = t

(* C14: for a tile that has a row, the pipeline-status update, the         *)
(* validation update and the ingest-status update issued by different      *)
(* callers compose in every interleaving of the calls: each call leaves    *)
(* its value in its own column of the tile's row and changes no other      *)
(* status column, and a value a caller has written stays in its column     *)
(* while the other callers write theirs.                                   *)
C14_ColumnUpdatesCompose ==
    [][\A t \in TileIds, b \in Bands :
          (\E r \in tile3d[b] : r.tile_id = t) =>
             LET r == RowOfTile(tile3d[b], t)
                 r2 == RowOfTile(tile3d'[b], t)
             IN /\ \E q \in tile3d'[b] : q.tile_id = t
                /\ update_3d_pipeline(t, b, "Running") =>
                      r2.pipeline = "Running" /\ r2.val = r.val /\ r2.ingest = r.ingest
                /\ update_3d_pipeline_ingest(t, b, "Ingested") =>
                      r2.ingest = "Ingested" /\ r2.val = r.val /\ r2.pipeline = r.pipeline
                /\ \A l \in ValLinks : update_3d_pipeline_val(t, b, "Good", l) =>
                      r2.val = "Good" /\ r2.pipeline = r.pipeline /\ r2.ingest = r.ingest
                /\ r.pipeline = "Running" => r2.pipeline = "Running"
                /\ r.ingest = "Ingested" => r2.ingest = "Ingested"
                /\ r.val = "Good" => r2.val = "Good"]_vars

\* what a mutating call on a key returns and does with the table: 1 when a row
\* with the key was there, 0 and no change when none was, and no exception
RowsAffected(before, after, k, v) ==
    /\ "value" \in DOMAIN ret'
    /\ ret'.value = IF \E r \in before : r[k] = v THEN 1 ELSE 0
    /\ ret'.value = 0 => after = before

(* C15: every mutating operation called with band 1 or 2 returns the       *)
(* number of rows it affected: 1 when a row with the target key exists, 0  *)
(* exactly when no row with the key exists, in which case the table is     *)
(* unchanged and nothing is raised.                                        *)
C15_RowsAffected ==
    [][/\ \A t \in TileIds, b \in Bands :
            /\ update_3d_pipeline(t, b, "Running") =>
                  RowsAffected(tile3d[b], tile3d'[b], "tile_id", t)
            /\ update_3d_pipeline_ingest(t, b, "Ingested") =>
                  RowsAffected(tile3d[b], tile3d'[b], "tile_id", t)
            /\ \A l \in ValLinks : update_3d_pipeline_val(t, b, "Good", l) =>
                  RowsAffected(tile3d[b], tile3d'[b], "tile_id", t)
       /\ \A b \in Bands :
            /\ update_1d_pipeline_validation_status("EMU_A", ObsSbid["EMU_A"], b, "Running") =>
                  RowsAffected(obs1d[b], obs1d'[b], "name", "EMU_A")
            /\ update_single_sb_1d_pipeline_status("EMU_A", ObsSbid["EMU_A"], b, "Completed") =>
                  RowsAffected(obs1d[b], obs1d'[b], "name", "EMU_A")]_vars

\* a call that raised the validation error and left the store as it was
RejectedBand ==
    /\ "error" \in DOMAIN ret'
    /\ ret'.error = "ValueError"
    /\ UNCHANGED <<tileVars, oneDVars>>

(* C16: every band-scoped operation of the store access layer called with  *)
(* a band other than "1" or "2" (here "3") raises the validation error and *)
(* leaves the store unchanged: the status updates of the observation and   *)
(* partial-tile tables, the readiness query and the two completeness       *)
(* queries.                                                                *)
C16_BandValidated ==
    [][\A b \in BandArgs \ Bands :
          /\ \A n \in ObsNames, s \in ValidationTexts :
                update_1d_pipeline_validation_status(n, ObsSbid[n], b, s) => RejectedBand
          /\ \A t \in CompleteTiles, s \in {"Completed", "Running"} :
                update_partial_tile_1d_pipeline_status(t[1], <<t[3], t[4], "", "">>, b, s)
                   => RejectedBand
          /\ launcher_get_tiles_for_pipeline_run(b) => RejectedBand
          /\ get_results_per_field_sbid(b) => RejectedBand
          /\ get_results_per_field_sbid_skip_edges(b) => RejectedBand]_vars

(* C17: a call of update_3d_pipeline_table that names a column outside the *)
(* allow-list of the tile tables raises (the configuration error when the  *)
(* band is valid) and leaves the store unchanged, and whatever the call, a *)
(* row of the tile tables changes in allow-listed columns only.            *)
C17_ColumnAllowList ==
    [][\A t \in TileIds, b \in BandArgs, c \in ColumnArgs :
          update_3d_pipeline_table(t, b, "Running", c) =>
             /\ c \notin AllowedColumns =>
                   /\ "error" \in DOMAIN ret'
                   /\ b \in Bands => ret'.error = "ConfigurationError"
                   /\ UNCHANGED <<tileVars, oneDVars>>
             /\ "error" \notin DOMAIN ret' => c \in AllowedColumns
             /\ \A bb \in Bands : \A r2 \in tile3d'[bb] : \E r \in tile3d[bb] :
                   \A f \in DOMAIN r \ {ColumnField[a] : a \in AllowedColumns} :
                      r2[f] = r[f]]_vars

\* a tile with a written status column, and a write naming cube_state refused
C17_Witness ==
    /\ "error" \in DOMAIN ret
    /\ ret.error = "ConfigurationError"
    /\ \E r \in tile3d["1"] : r.pipeline = "Running"

\* the slots of a row that hold a tile
Populated(r) == {k \in 1..4 : <<r.tile1, r.tile2, r.tile3, r.tile4>>[k] # NULLINT}

\* the type a row of this shape must have, whatever the case of its letters
ShapeHolds(r) ==
    /\ Populated(r) = {1, 2, 3, 4} =>
          r.type # NULL /\ Lower(r.type) \in {"corner", "corner - crosses projection boundary!"}
    /\ Populated(r) = {1, 2} =>
          r.type # NULL /\ Lower(r.type) \in {"edge", "edge - crosses projection boundary!"}
    /\ Populated(r) = {1} => r.type # NULL /\ Lower(r.type) = "center"

\* the input rows whose type is not the type of their shape
WrongShapeRows == {row \in ShapeInputRows : ~ShapeHolds(InsertArgs(row))}

(* C18: every row stored in a partial-tile table has the type of its       *)
(* shape (four tiles: a corner type; tiles 1 and 2 only: an edge type;     *)
(* tile 1 only: center; letter case ignored), and an insert of a row that  *)
(* has not leaves the table unchanged.                                     *)
C18_ShapeConstraints ==
    [][/\ \A b \in Bands : \A r \in partial_tile'[b] : ShapeHolds(r)
       /\ \A row \in WrongShapeRows :
             insert_row_into_partial_tile_table(row, "1") => partial_tile' = partial_tile]_vars

\* the table holds a corner, an edge and a center row whose types are written
\* with capitals
C18_Witness ==
    \E r1, r2, r4 \in partial_tile["1"] :
        /\ Populated(r1) = {1} /\ r1.type = "Center"
        /\ Populated(r2) = {1, 2} /\ r2.type = "Edge - Crosses Projection Boundary!"
        /\ Populated(r4) = {1, 2, 3, 4} /\ r4.type = "Corner - Crosses Projection Boundary!"

Slot(r, k) == <<r.tile1, r.tile2, r.tile3, r.tile4>>[k]

\* no two slots of the row that hold a tile hold the same tile
DistinctTiles(r) == \A i, j \in Populated(r) : i # j => Slot(r, i) # Slot(r, j)

\* the input rows with the same tile in two slots
EqualSlotRows == {row \in ShapeInputRows : ~DistinctTiles(InsertArgs(row))}

\* the input rows with two or more absent slots that break no rule
AbsentSlotRows ==
    {row \in ShapeInputRows :
        LET r == InsertArgs(row)
        IN Cardinality(Populated(r)) <= 2 /\ DistinctTiles(r) /\ ShapeHolds(r)}

(* C19: no row stored in a partial-tile table holds the same tile in two   *)
(* of its populated slots; an insert of a row with the same tile in two    *)
(* populated slots leaves the table unchanged; and an insert of a row with *)
(* several absent slots that breaks no other rule is accepted: afterwards  *)
(* the table holds a row with its key.                                     *)
C19_DistinctPopulatedSlots ==
    [][/\ \A b \in Bands : \A r \in partial_tile'[b] : DistinctTiles(r)
       /\ \A row \in EqualSlotRows :
             insert_row_into_partial_tile_table(row, "1") => partial_tile' = partial_tile
       /\ \A row \in AbsentSlotRows :
             insert_row_into_partial_tile_table(row, "1") =>
                \E q \in partial_tile'["1"] : generated_key(q) = generated_key(InsertArgs(row))]_vars

\* the table holds a row without any tile and a row with tiles in slots 1 and 3
C19_Witness ==
    \E r0, r2 \in partial_tile["1"] : Populated(r0) = {} /\ Populated(r2) = {1, 3}

\* the natural key of a stored row and of an input row: observation, the four
\* slots with every absent slot written the same way, and the type
AbsentSlot == "absent"
NaturalKey(r) ==
    <<r.observation, [k \in 1..4 |-> IF Slot(r, k) = NULLINT THEN AbsentSlot ELSE Str(Slot(r, k))],
      r.type>>
InputKey(row) ==
    <<row[1], [k \in 1..4 |-> IF isdigit(row[k + 2]) THEN row[k + 2] ELSE AbsentSlot], row[7]>>

(* C20: a partial-tile table never holds two rows with the same natural    *)
(* key (observation, the four tile slots with absent slots all alike, and  *)
(* type); an insert of a row whose natural key a stored row has, however   *)
(* its absent slots are written, leaves the table unchanged: the stored    *)
(* row is not overwritten.                                                 *)
C20_OneRowPerNaturalKey ==
    [][/\ \A b \in Bands : \A q1, q2 \in partial_tile'[b] :
             NaturalKey(q1) = NaturalKey(q2) => q1 = q2
       /\ \A row \in ShapeInputRows :
             (/\ \E q \in partial_tile["1"] : NaturalKey(q) = InputKey(row)
              /\ insert_row_into_partial_tile_table(row, "1"))
                => partial_tile' = partial_tile]_vars

\* the completed center row of tile 1 is stored, beside the row of the same
\* tile whose type is written Center, which is another key
C20_Witness ==
    \E q1, q2 \in partial_tile["1"] :
        /\ Populated(q1) = {1} /\ q1.type = "center" /\ q1.status = "Completed"
        /\ Populated(q2) = {1} /\ q2.type = "Center" /\ q2.status = ""

\* the tile ids of a returned worklist: get_tiles_for_ingest returns the ids,
\* get_tiles_for_pipeline_run the rows (tile_id,)
Worklist(r) ==
    [k \in 1..Len(r.value) |->
        IF r.op = "get_tiles_for_ingest" THEN r.value[k] ELSE r.value[k][1]]

StrictlyAscending(seq) == \A i, j \in 1..Len(seq) : i < j => seq[i] < seq[j]

(* C21: the worklists get_tiles_for_pipeline_run and get_tiles_for_ingest  *)
(* return are strictly ascending in tile id, hence without duplicates, and *)
(* a call that follows a call of the same query for the same band on an    *)
(* unchanged store returns the same worklist.                              *)
C21_WorklistsOrdered ==
    [][(ret'.op \in {"get_tiles_for_pipeline_run", "get_tiles_for_ingest"}
           /\ "value" \in DOMAIN ret') =>
          /\ StrictlyAscending(Worklist(ret'))
          /\ (ret.op = ret'.op /\ "value" \in DOMAIN ret /\ ret.band = ret'.band
                 /\ UNCHANGED tileVars) => ret'.value = ret.value]_vars

\* both queries have returned two tiles, tile 2 being in two observations
C21_Witness ==
    /\ ret.op \in {"get_tiles_for_pipeline_run", "get_tiles_for_ingest"}
    /\ "value" \in DOMAIN ret
    /\ Worklist(ret) = <<1, 2>>

NonBlankIngest == {"IngestRunning", "Ingested", "IngestFailed"}

BlankAsEmpty(x) == IF x = NULL THEN "" ELSE x
PartialBlanked(table) == {[r EXCEPT !.status = BlankAsEmpty(@)] : r \in table}
ObsBlanked(table) == {[o EXCEPT !.validation = BlankAsEmpty(@)] : o \in table}

\* the rows each 1D query selects from the tables of a band, as a set
ReadyRowSet(b) == {ReadySelect(pt) : pt \in {q \in PartialTable(b) : ReadyWhere(q) = T3}}
CompleteRowSet(b) ==
    {<<g.observation, g.sbid, all_complete(b, g)>> : g \in CompleteGroups(b)}
NonEdgeRowSet(b) ==
    {<<pt.observation, pt.sbid, non_edge_complete(b, pt)>> : pt \in PartialTable(b)}

(* C23: NULL and '' are interchangeable in the 1D readiness and            *)
(* completeness predicates: a write that only replaces a NULL status or    *)
(* validation by '' (or '' by NULL) changes the rows selected by none of   *)
(* get_partial_tiles_for_1d_pipeline_run,                                  *)
(* get_observations_with_complete_partial_tiles and                        *)
(* get_observations_non_edge_rows.                                         *)
C23_NullIsEmpty ==
    [][\A b \in Bands :
          (/\ PartialBlanked(partial_tile[b]) = PartialBlanked(partial_tile'[b])
           /\ ObsBlanked(obs1d[b]) = ObsBlanked(obs1d'[b])) =>
             /\ ReadyRowSet(b)' = ReadyRowSet(b)
             /\ CompleteRowSet(b)' = CompleteRowSet(b)
             /\ NonEdgeRowSet(b)' = NonEdgeRowSet(b)]_vars

\* two texts that differ in the case of their letters at most
SameButCase(a, b) == a # NULL /\ b # NULL /\ Lower(a) = Lower(b)

(* C24: letter case is not significant in the conditions of the tile       *)
(* readiness queries: for a stored tile and an observation associated with *)
(* it, get_tiles_for_pipeline_run's condition gives the same answer when   *)
(* the observation's cube_state is written in another case, and            *)
(* get_tiles_for_ingest's condition gives the same answer when the tile's  *)
(* 3d_pipeline_val is written in another case.                             *)
C24_CaseInsignificant ==
    \A b \in Bands : \A r \in tile3d[b] :
        /\ \A n \in ObsNames, c \in CubeStates :
              (<<n, r.tile_id>> \in associated_tile /\ SameButCase(observation[n], c)) =>
                  PipelineRunWhere(r, observation[n]) = PipelineRunWhere(r, c)
        /\ \A v \in ValTexts :
              SameButCase(r.val, v) => IngestWhere(r) = IngestWhere([r EXCEPT !.val = v])

\* the stored slot an argument names: no tile for None and '', else the tile
SlotNamed(tile) == IF tile \in {NULL, ""} THEN NULLINT ELSE ToInt(tile)

\* the rows of a table with the observation and the four slots of the key
RowsWithKey(table, field, tn) ==
    {r \in table : r.observation = field /\ \A k \in 1..4 : Slot(r, k) = SlotNamed(tn[k])}

(* C25: update_partial_tile_1d_pipeline_status(field, [t1..t4], band,      *)
(* status) writes the status on the rows of that observation whose four    *)
(* slots are the given ones, an absent slot given as None or as ''         *)
(* matching a stored NULL, and on no other row: rows of the observation    *)
(* with other slots and rows of other observations stay as they are.       *)
C25_UpdateByFourSlotKey ==
    [][\A n \in ObsNames, tn \in SlotArgs, s \in {"Running", "Completed", "Failed"} :
          update_partial_tile_1d_pipeline_status(n, tn, "1", s) =>
             partial_tile'["1"] =
                {IF r \in RowsWithKey(partial_tile["1"], n, tn)
                 THEN [r EXCEPT !.status = s] ELSE r : r \in partial_tile["1"]}]_vars

\* the center row of EMU_A is Completed (its key given with None or ''), while
\* the edge and corner rows sharing tile 1 and the row of EMU_B are untouched
C25_Witness ==
    /\ ret.op = "update_partial_tile_1d_pipeline_status"
    /\ \A r \in partial_tile["1"] :
          r.status = IF r.observation = "EMU_A" /\ Populated(r) = {1}
                     THEN "Completed" ELSE ""

C27_RejectedWriteRaises ==
    [][\A t \in TileIds, b \in Bands, l \in ValLinks :
          (update_3d_pipeline_val(t, b, "Good", l) /\ ~isdigit(l))
             => "error" \in DOMAIN ret']_vars

Statuses3D == {NULL, "", "Running", "WaitingForValidation", "Failed"}

(* C28: through the 3D launcher and the 3D status logger the 3D pipeline   *)
(* status of a tile is always absent, empty, Running, WaitingForValidation *)
(* or Failed, and a step changes it only from blank to Running or from     *)
(* Running to WaitingForValidation or Failed.                              *)
C28_Lifecycle3D ==
    [][\A b \in Bands : \A r \in tile3d[b], q \in tile3d'[b] :
          q.tile_id = r.tile_id =>
             /\ q.pipeline \in Statuses3D
             /\ \/ q.pipeline = r.pipeline
                \/ r.pipeline \in Blank /\ q.pipeline = "Running"
                \/ r.pipeline = "Running"
                      /\ q.pipeline \in {"WaitingForValidation", "Failed"}]_vars

Statuses1D == {NULL, "", "Running", "Completed", "Failed", "NotStarted"}

\* the partial tile of a row is the one a launched job names
JobOfRow(j, r) ==
    /\ j.kind = "1d"
    /\ get_full_field_name(j.field, "943MHz") = r.observation
    /\ j.tiles = <<SlotText(r.tile1), SlotText(r.tile2), SlotText(r.tile3), SlotText(r.tile4)>>

(* C29: through the 1D launcher and the 1D status logger the 1d_pipeline   *)
(* status of a partial tile is always absent, empty, Running, Completed,   *)
(* Failed or NotStarted; a step changes it from blank to Running only when *)
(* it is the launcher submitting that partial tile, from Running to        *)
(* Completed, Failed or NotStarted only when it is the logger recording    *)
(* the outcome, and in no other way.                                       *)
C29_Lifecycle1D ==
    [][\A r \in partial_tile["1"], q \in partial_tile'["1"] :
          NaturalKey(q) = NaturalKey(r) =>
             /\ q.status \in Statuses1D
             /\ q.status # r.status =>
                   \/ /\ r.status \in Blank /\ q.status = "Running"
                      /\ ret'.op = "launch_band1_1Dpipeline"
                      /\ \E j \in ret'.launched : JobOfRow(j, r)
                   \/ /\ r.status = "Running"
                      /\ q.status \in {"Completed", "Failed", "NotStarted"}
                      /\ ret'.op = "log_processing_status_1D_PartialTiles"]_vars

\* the validation of the observation was set to Running in this step
SetRunning(n) ==
    /\ \E o \in obs1d'["1"] : o.name = n /\ o.validation = "Running"
    /\ \A o \in obs1d["1"] : o.name = n => o.validation # "Running"

(* C30: whenever a poll of the 1D launcher sets the 1d_pipeline_validation *)
(* of an observation to Running, then in the state the poll read the       *)
(* validation of the observation was blank and either all its partial      *)
(* tiles had status Completed or all its partial tiles that do not cross a *)
(* projection boundary had.                                                *)
C30_ValidationWhenComplete ==
    [][\A n \in ObsNames :
          (ret'.op = "launch_band1_1Dpipeline" /\ SetRunning(n)) =>
             /\ \A o \in obs1d["1"] : o.name = n => o.validation \in Blank
             /\ \/ \A pt \in RowsOf("1", n) : pt.status = "Completed"
                \/ \A pt \in NonBoundaryRowsOf("1", n) : pt.status = "Completed"]_vars

(* C31: a poll of launch_band1_1Dpipeline that launches the 1D job of a    *)
(* partial tile ends normally with 1d_pipeline = Running on the row of     *)
(* that partial tile (the launched field under its full name, the four     *)
(* slots) and on no other row, and it launches no job for a partial tile   *)
(* whose earlier job has not logged its outcome yet.                       *)
C31_LaunchRecordsRunning ==
    [][ret'.op = "launch_band1_1Dpipeline" =>
          \A j \in ret'.launched :
             /\ "error" \notin DOMAIN ret'
             /\ \A q \in partial_tile'["1"] : JobOfRow(j, q) => q.status = "Running"
             /\ \A r \in partial_tile["1"] : ~JobOfRow(j, r) => r \in partial_tile'["1"]
             /\ j \notin jobs]_vars

\* the tiles the readiness query returns for band 1 after the step
ReadyAfter == {PipelineRunQueryRows(tile3d["1"])[k][1] :
                  k \in DOMAIN PipelineRunQueryRows(tile3d["1"])}'

(* C32: when the 3D launcher has launched the job of a tile and records    *)
(* Running with update_status (the tile being in the status sheet and in   *)
(* the table), the tile is not in the next result of                       *)
(* get_tiles_for_pipeline_run; and no poll launches a tile whose 3D        *)
(* pipeline status is not blank.                                           *)
C32_LaunchedTileNotReady ==
    [][/\ \A t \in TileIds :
             (launcher_update_status(t, "943MHz", "Running", TRUE)
                 /\ \E r \in tile3d["1"] : r.tile_id = t)
                => t \notin ReadyAfter
       /\ ret'.op = "launch_band1_3Dpipeline" =>
             \A text \in ret'.launched : \A r \in tile3d["1"] :
                r.tile_id = ToInt(text) => r.pipeline \in Blank /\ ToInt(text) \notin ReadyAfter]_vars

\* the tiles of band 1 that get_tiles_for_pipeline_run returns and that are in
\* the CANFAR listing c
ReadyAndAvailable(c) ==
    {PipelineRunQueryRows(tile3d["1"])[k][1] : k \in DOMAIN PipelineRunQueryRows(tile3d["1"])}
       \cap {t \in TileIds : Str(t) \in c}

(* C34: one call of launch_band1_3Dpipeline launches exactly the smallest  *)
(* tile that is both ready and in the CANFAR listing, and when no tile is  *)
(* in both it launches nothing and writes no status.                       *)
C34_LaunchesSmallestReady ==
    [][\A c \in SUBSET {"1", "2"} :
          (\E found \in BOOLEAN : launch_band1_3Dpipeline(c, found)) =>
             IF ReadyAndAvailable(c) = {}
             THEN ret'.launched = {} /\ tile3d' = tile3d
             ELSE ret'.launched =
                     {Str(CHOOSE t \in ReadyAndAvailable(c) : \A u \in ReadyAndAvailable(c) : t <= u)}]_vars

\* the observation is in one of the two summary worklists of band 1
InSummaryWorklist(n) ==
    \/ \E g \in CompleteGroups("1") : g.observation = n /\ all_complete("1", g)
    \/ \E pt \in PartialTable("1") : pt.observation = n /\ non_edge_complete("1", pt)

(* C33: for every observation for which a poll of the 1D launcher starts a *)
(* summary job, the validation of the observation was blank in the state   *)
(* the poll read and no summary job of the observation was launched        *)
(* before; after the poll its 1d_pipeline_validation is Running and the    *)
(* observation is in neither summary worklist.                             *)
C33_SummaryRecordsRunning ==
    [][ret'.op = "launch_band1_1Dpipeline" =>
          \A key \in ret'.summaries :
             /\ \A o \in obs1d["1"] : o.name = key[1] => o.validation \in Blank
             /\ \A j \in jobs : ~(j.kind = "summary" /\ j.field = remove_prefix(key[1]))
             /\ \E j \in jobs' : j.kind = "summary" /\ j.field = remove_prefix(key[1])
             /\ \E o \in obs1d'["1"] : o.name = key[1]
             /\ \A o \in obs1d'["1"] : o.name = key[1] => o.validation = "Running"
             /\ ~InSummaryWorklist(key[1])']_vars

\* a poll has started a summary job, and the observation is in no worklist
C33_Witness ==
    /\ ret.op = "launch_band1_1Dpipeline"
    /\ \E key \in ret.summaries :
          /\ \E o \in obs1d["1"] : o.name = key[1] /\ o.validation = "Running"
          /\ ~InSummaryWorklist(key[1])

(* C35: update_3d_pipeline_val(tile_number, band, status, val_link) sets   *)
(* 3d_pipeline_val to status and 3d_val_link to val_link on the row whose  *)
(* tile_id is tile_number, changes no other row and no other table, and    *)
(* returns 1 when the tile has a row and 0 when it has none.               *)
C35_ValAndLinkOnTheTile ==
    [][\A t \in TileIds, b \in Bands, l \in ValLinks :
          update_3d_pipeline_val(t, b, "Good", l) =>
             /\ tile3d'[b] = {IF r.tile_id = t THEN [r EXCEPT !.val = "Good", !.link = l]
                              ELSE r : r \in tile3d[b]}
             /\ \A c \in Bands \ {b} : tile3d'[c] = tile3d[c]
             /\ "value" \in DOMAIN ret'
             /\ ret'.value = IF \E r \in tile3d[b] : r.tile_id = t THEN 1 ELSE 0]_vars

\* observations whose validation is blank, whose partial tiles that do not
\* cross a projection boundary are all completed, and that have a partial tile
\* crossing a boundary that is not completed
BlockedByBoundaryOnly(band) ==
    {O \in ObsNames :
        /\ ValidationBlank(band, O)
        /\ \A pt \in NonBoundaryRowsOf(band, O) : pt.status \in CompletedInAnyCase
        /\ \E pt \in RowsOf(band, O) :
              pt.type \in BoundaryTypes /\ pt.status \notin CompletedInAnyCase}

(* C38: in every state of the tables, an observation that the all-complete *)
(* predicate reports complete is also reported complete by the non-edge     *)
(* predicate; and the boundary-issue worklist of the launcher holds exactly *)
(* the observations that only partial tiles crossing a projection boundary  *)
(* keep from being complete.                                                *)
C38_NonEdgeRelaxesComplete ==
    /\ \A g \in CompleteGroups("1") :
          all_complete("1", g) =>
             \E pt \in PartialTable("1") :
                pt.observation = g.observation /\ non_edge_complete("1", pt)
    /\ (ret.op = "launcher_get_tiles_for_pipeline_run" /\ "value" \in DOMAIN ret) =>
          {key[1] : key \in ret.value.can_make_val_if_skip_edges}
             = BlockedByBoundaryOnly(ret.band)

\* whether a partial tile of the observation crosses a projection boundary
HasBoundaryIssue(n) ==
    \E pt \in partial_tile["1"] : pt.observation = n /\ pt.type \in BoundaryTypes

(* C37: after the summary logger has run for an observation with the       *)
(* derived status s, the 1d_pipeline_validation of the observation is s;   *)
(* when s is Completed the run ends normally and the single-SB status is   *)
(* 'PartialTilesBI - <date>' if a partial tile of the observation crosses  *)
(* a projection boundary and 'PartialTiles - <date>' otherwise; for any    *)
(* other s the single-SB status is as it was and the run raises.           *)
C37_SummaryStatus ==
    [][ret'.op = "log_processing_status_1D_PartialTiles_summary" =>
          /\ \E o \in obs1d'["1"] : o.name = ret'.field /\ o.validation = ret'.status
          /\ ret'.status = "Completed" =>
                /\ ret'.error = "none"
                /\ \A o \in obs1d'["1"] : o.name = ret'.field =>
                      o.single_sb = IF HasBoundaryIssue(ret'.field)
                                    THEN "PartialTilesBI - <date>"
                                    ELSE "PartialTiles - <date>"
          /\ ret'.status # "Completed" =>
                /\ ret'.error # "none"
                /\ \A o \in obs1d["1"] : o.name = ret'.field =>
                      \E q \in obs1d'["1"] : q.name = o.name /\ q.single_sb = o.single_sb]_vars

(* C36: a run of do_ingest that passes the finalize precondition records   *)
(* 3d_pipeline_ingest = Ingested for the tile exactly when the report      *)
(* shows 24 inputs and 24 successes and CADC has every 3D product, and     *)
(* ends normally then; in every other case it records IngestFailed and     *)
(* raises.  The 3d_pipeline status of the tile changes only in a run that  *)
(* recorded Ingested, and never in a run whose precondition raised.        *)
C36_IngestOutcome ==
    [][\A t \in TileIds, band \in BandNames, test, success, CADCsuccess \in BOOLEAN :
          do_ingest(t, band, test, success, CADCsuccess) =>
             LET b == get_band_number(band)
             IN \A r \in tile3d[b] : r.tile_id = t =>
                   \E q \in tile3d'[b] :
                      /\ q.tile_id = t
                      /\ q.pipeline # r.pipeline =>
                            q.ingest = "Ingested" /\ ret'.raised_by # "precondition"
                      /\ IF ret'.raised_by = "precondition"
                         THEN q = r
                         ELSE /\ q.ingest = IF success /\ CADCsuccess THEN "Ingested"
                                            ELSE "IngestFailed"
                              /\ (ret'.error = "none") <=> (success /\ CADCsuccess)]_vars

====
